---------------------------- MODULE Spec2Model ----------------------------
(***************************************************************************)
(* A model of the DNS validation engine of nscheck                         *)
(* (src/src/services/dns.ts, latest revision, lines 542-1227).             *)
(*                                                                         *)
(* Strings are sequences of one-character strings, so that the string      *)
(* operations the code relies on (includes, startsWith, replace,           *)
(* substring, the default sort order, the policy regular expression) are   *)
(* computed character by character, as JavaScript computes them.           *)
(*                                                                         *)
(* A JavaScript object used as a map (Record<string, ...>) is a sequence   *)
(* of entries [key, isArray, val] in insertion order, which is the order   *)
(* Object.keys / Object.entries / Object.values enumerate string keys in.  *)
(***************************************************************************)
EXTENDS Integers, Sequences, FiniteSets, TLC

VARIABLES
    domain,             \* the domain under test (validate / validateResults argument)
    results,            \* the per-provider bundle (DnsResult) handed to the analyzer
    records,            \* the consolidated record map (validate's `records`)
    dmarcRecords,       \* the list handed to DmarcValidator.validate
    dkimResult,         \* result object of DkimValidator.validate (mutated by validateResults)
    dkimErrors,         \* result object of DkimValidator.checkCommonErrors
    dmarcResult,        \* result object of DmarcValidator.validate
    consistencyResult,  \* result object of ResultAnalyzer.checkConsistency
    summary,            \* the ValidationSummary validateResults resolves with
    pc,                 \* position of the call in progress
    wwwAnswers,         \* what the three www probe queries resolved with
    returned,           \* the summaries validateResults resolved with so far, in order
    ipCounts,           \* RequestThrottler.ipCounts
    now,                \* the clock Date.now() reads
    calls,              \* the checkAllowed calls made so far, in call order
    query,              \* arguments of the DnsResolver call in progress
    call,               \* the queryWithTimeout call the caller is waiting for
    result,             \* queryAllProviders' `result` object
    provOutcome,        \* how the query of each fixed provider ended
    authNsRecords,      \* queryAllProviders' authNsRecords
    nsLookups,          \* the NS lookups made so far, in order
    authLog,            \* the authoritative servers tried so far, in order
    rpc,                \* position of the DnsResolver call in progress
    enableFileLogging,  \* Logger.enableFileLogging
    memoryLogs,         \* Logger.memoryLogs
    logFile,            \* the log file on disk
    logCalls,           \* the Logger.log calls made so far, in call order
    entriesRead,        \* what the getEntries call just made resolved with
    reqs,               \* the requests the /api/domain handler received, in order of arrival
    inputValue,         \* DomainChecker's `domain` state, the text of the input field
    showWwwPrompt,      \* DomainChecker's showWwwPrompt state
    rootDomain,         \* DomainChecker's rootDomain state
    isChecking,         \* DomainChecker's isChecking state
    isLoading,          \* the isLoading prop the page passes to DomainChecker
    onCheckCalls,       \* the arguments onCheck was called with, in order
    lastEvent           \* the last thing the user did on the page

analyzerVars == <<domain, results, records, dmarcRecords, dkimResult, dkimErrors,
                  dmarcResult, consistencyResult, summary, pc, wwwAnswers, returned>>

throttlerVars == <<ipCounts, now, calls>>

resolverVars == <<query, call, result, provOutcome, authNsRecords, nsLookups, authLog, rpc>>

loggerVars == <<enableFileLogging, memoryLogs, logFile, logCalls, entriesRead>>

handlerVars == <<reqs>>

checkerVars == <<inputValue, showWwwPrompt, rootDomain, isChecking, isLoading,
                 onCheckCalls, lastEvent>>

vars == <<analyzerVars, throttlerVars, resolverVars, loggerVars, handlerVars, checkerVars>>

\* The variables the analyzer leaves alone
nonAnalyzerVars == <<throttlerVars, resolverVars, loggerVars, handlerVars, checkerVars>>

\* The variables the throttler leaves alone
nonThrottlerVars == <<analyzerVars, resolverVars, loggerVars, handlerVars, checkerVars>>

\* The variables the resolver leaves alone
nonResolverVars == <<analyzerVars, throttlerVars, loggerVars, handlerVars, checkerVars>>

\* The variables the logger leaves alone
nonLoggerVars == <<analyzerVars, throttlerVars, resolverVars, handlerVars, checkerVars>>

\* The variables the handler leaves alone (it calls the throttler)
nonHandlerVars == <<analyzerVars, resolverVars, loggerVars, checkerVars>>

\* The variables DomainChecker leaves alone
nonCheckerVars == <<analyzerVars, throttlerVars, resolverVars, loggerVars, handlerVars>>

\* No throttler has been constructed
ThrottlerIdle == ipCounts = <<>> /\ now = 0 /\ calls = <<>>

\* No queryWithTimeout call is in progress
NoCall == [state |-> "none", provider |-> <<>>, resolvedBy |-> <<>>, servers |-> <<>>,
           timer |-> FALSE, cause |-> "none", value |-> <<>>, error |-> "none"]

\* No resolver call is in progress
ResolverIdle ==
    /\ query = <<>>
    /\ call = NoCall
    /\ result = <<>>
    /\ provOutcome = <<>>
    /\ authNsRecords = <<>>
    /\ nsLookups = <<>>
    /\ authLog = <<>>
    /\ rpc = "idle"

\* The log file does not exist
NoFile == [exists |-> FALSE, lines |-> <<>>]

\* No getEntries call has just returned
NoRead == [limit |-> -1, entries |-> <<>>]

\* No logger has been constructed
LoggerIdle ==
    /\ enableFileLogging = FALSE
    /\ memoryLogs = <<>>
    /\ logFile = NoFile
    /\ logCalls = <<>>
    /\ entriesRead = NoRead

\* The handler has received no request
HandlerIdle == reqs = <<>>

\* No DomainChecker is mounted
CheckerIdle ==
    /\ inputValue = <<>>
    /\ showWwwPrompt = FALSE
    /\ rootDomain = <<>>
    /\ isChecking = FALSE
    /\ isLoading = FALSE
    /\ onCheckCalls = <<>>
    /\ lastEvent = "none"

NonAnalyzerIdle == ThrottlerIdle /\ ResolverIdle /\ LoggerIdle /\ HandlerIdle /\ CheckerIdle

-----------------------------------------------------------------------------
(* String literals of the program                                          *)

DKIM1 == <<"d","k","i","m",".","m","c","s","v",".","n","e","t">>
DKIM2 == <<"d","k","i","m","2",".","m","c","s","v",".","n","e","t">>
DKIM3 == <<"d","k","i","m","3",".","m","c","s","v",".","n","e","t">>
DomainKeyDot == <<"_","d","o","m","a","i","n","k","e","y",".">>
DomainKeyWwwDot == <<"_","d","o","m","a","i","n","k","e","y",".","w","w","w",".">>
WwwDot == <<"w","w","w",".">>
Dot == <<".">>
K1Prefix == <<"k","1",".","_","d","o","m","a","i","n","k","e","y",".">>
K2Prefix == <<"k","2",".","_","d","o","m","a","i","n","k","e","y",".">>
K3Prefix == <<"k","3",".","_","d","o","m","a","i","n","k","e","y",".">>
DmarcPrefix == <<"_","d","m","a","r","c",".">>
DmarcTag == <<"_","d","m","a","r","c">>
VDmarc1 == <<"v","=","D","M","A","R","C","1">>
PReject == <<"p","=","r","e","j","e","c","t">>
PQuarantine == <<"p","=","q","u","a","r","a","n","t","i","n","e">>
PNone == <<"p","=","n","o","n","e">>
KeyAuthoritativeServer == <<"a","u","t","h","o","r","i","t","a","t","i","v","e","S","e","r","v","e","r">>
KeyAuthoritativeServers == <<"a","u","t","h","o","r","i","t","a","t","i","v","e","S","e","r","v","e","r","s">>

(* Strings used as test inputs                                             *)
OtherTarget == <<"x",".","n","e","t">>
DomA == <<"a",".","i","o">>
DomWwwA == <<"w","w","w",".","a",".","i","o">>

\* An absent optional field / a variable not yet assigned.  It is a sequence
\* whose only element is not a character, so it equals no string.
Undefined == <<"undefined">>

-----------------------------------------------------------------------------
(* JavaScript string operations                                            *)

\* String.prototype.indexOf, 1-based; 0 when t does not occur in s.
IndexOf(s, t) ==
    LET starts == {i \in 1..(Len(s) - Len(t) + 1) : SubSeq(s, i, i + Len(t) - 1) = t}
    IN  IF starts = {} THEN 0
        ELSE CHOOSE i \in starts : \A j \in starts : i <= j

\* String.prototype.includes
Includes(s, t) == IndexOf(s, t) # 0

\* String.prototype.startsWith
StartsWith(s, t) == Len(t) <= Len(s) /\ SubSeq(s, 1, Len(t)) = t

\* String.prototype.substring(n), n counted from 0
Substring(s, n) == SubSeq(s, n + 1, Len(s))

\* String.prototype.replace with a string pattern: the first occurrence only.
\* (No replacement string of the model contains "$".)
Replace(s, t, r) ==
    LET i == IndexOf(s, t)
    IN  IF i = 0 THEN s
        ELSE SubSeq(s, 1, i - 1) \o r \o SubSeq(s, i + Len(t), Len(s))

-----------------------------------------------------------------------------
(* Objects used as maps                                                    *)

\* Object.keys
Keys(m) == [i \in 1..Len(m) |-> m[i].key]

HasKey(m, k) == \E i \in 1..Len(m) : m[i].key = k

\* m[k] for a key that is present
Get(m, k) == m[CHOOSE i \in 1..Len(m) : m[i].key = k].val

\* m[k] || []
GetOrEmpty(m, k) == IF HasKey(m, k) THEN Get(m, k) ELSE <<>>

\* Array.prototype.some(r => r === v)
Contains(list, v) == \E i \in 1..Len(list) : list[i] = v

ArrayEntry(k, v) == [key |-> k, isArray |-> TRUE, val |-> v]

-----------------------------------------------------------------------------
(* DkimValidator                                                           *)

Error(t, msg) == [type |-> t, message |-> msg, actual |-> Undefined, expected |-> Undefined]

ErrorAt(t, msg, act, exp) == [type |-> t, message |-> msg, actual |-> act, expected |-> exp]

\* IsSwitched comparing the whole lists instead of searching them
IsSwitched_WholeList(k2Records, k3Records) == k2Records = <<DKIM3>> /\ k3Records = <<DKIM2>>

\* k2Records.some(r => r === 'dkim3.mcsv.net') && k3Records.some(r => r === 'dkim2.mcsv.net')
IsSwitched(k2Records, k3Records) == Contains(k2Records, DKIM3) /\ Contains(k3Records, DKIM2)

\* FallbackValid accepting any non-empty k1 list
FallbackValid_AnyValue(k1Records) == Len(k1Records) > 0

\* k1Records.length > 0 && k1Records.some(r => r === 'dkim.mcsv.net')
FallbackValid(k1Records) == Len(k1Records) > 0 /\ Contains(k1Records, DKIM1)

\* DkimValidator.validate
DkimValidate(dom, recs) ==
    LET k2Records == GetOrEmpty(recs, K2Prefix \o dom)
        k3Records == GetOrEmpty(recs, K3Prefix \o dom)
        k1Records == GetOrEmpty(recs, K1Prefix \o dom)
        k2Valid == Contains(k2Records, DKIM2)
        k3Valid == Contains(k3Records, DKIM3)
    IN  IF Len(k2Records) > 0 /\ Len(k3Records) > 0
        THEN IF k2Valid /\ k3Valid
             THEN [isValid |-> TRUE, errors |-> <<>>]
             ELSE IF IsSwitched(k2Records, k3Records)
             THEN [isValid |-> FALSE, errors |-> <<Error("switchedRecords",
                     "DKIM records appear to be switched - k2 points to dkim3 and k3 points to dkim2")>>]
             ELSE [isValid |-> FALSE, errors |-> <<Error("incorrectDestination",
                     "DKIM records found but point to incorrect destinations")>>]
        ELSE IF FallbackValid(k1Records)
             THEN [isValid |-> TRUE, errors |-> <<>>]
             ELSE IF Len(k2Records) = 0 /\ Len(k3Records) = 0 /\ Len(k1Records) = 0
             THEN [isValid |-> FALSE, errors |-> <<Error("missingRecords",
                     "No DKIM records found")>>]
             ELSE [isValid |-> FALSE, errors |-> <<Error("invalidRecords",
                     "DKIM records found but are not configured correctly")>>]

\* value === 'dkim.mcsv.net' || value === 'dkim2.mcsv.net' || value === 'dkim3.mcsv.net'
IsDkimCname(value) == value = DKIM1 \/ value = DKIM2 \/ value = DKIM3

\* HasDkimCnames accepting any value list
HasDkimCnames_AnyList(recordValues) == TRUE

HasDkimCnames(recordValues) == \E i \in 1..Len(recordValues) : IsDkimCname(recordValues[i])

\* The `expected` name checkCommonErrors computes for a www-located record
CorrectRecord(dom, record) ==
    IF StartsWith(dom, WwwDot)
    THEN Replace(record, DomainKeyDot \o dom, DomainKeyDot \o Substring(dom, 4))
    ELSE Replace(record, WwwDot \o dom, dom)

\* IsWwwRecord selecting every _domainkey. name, whatever the domain
IsWwwRecord_AnyDomainKey(dom, k) == Includes(k, DomainKeyDot)

\* The filter that selects the candidate www records
IsWwwRecord(dom, k) ==
    Includes(k, DomainKeyWwwDot) \/ (Includes(k, DomainKeyDot) /\ StartsWith(dom, WwwDot))

\* The filter that selects record names with the domain repeated
IsDuplicateDomainRecord(dom, k) == Includes(k, DomainKeyDot \o dom \o Dot \o dom)

\* DkimValidator.checkCommonErrors
CheckCommonErrors(dom, recs) ==
    LET wwwRecords == SelectSeq(Keys(recs), LAMBDA k : IsWwwRecord(dom, k))
        found == SelectSeq(wwwRecords, LAMBDA r : HasDkimCnames(GetOrEmpty(recs, r)))
        wwwErrors == [i \in 1..Len(found) |->
                        ErrorAt("wrongSubdomain", "DKIM record published for incorrect subdomain",
                                found[i], CorrectRecord(dom, found[i]))]
        duplicateDomainRecords == SelectSeq(Keys(recs), LAMBDA k : IsDuplicateDomainRecord(dom, k))
        dupErrors == [i \in 1..Len(duplicateDomainRecords) |->
                        ErrorAt("duplicateDomain", "DKIM record contains duplicate domain",
                                duplicateDomainRecords[i],
                                Replace(duplicateDomainRecords[i], dom \o Dot \o dom, dom))]
    IN  [isValid |-> Len(found) = 0 /\ Len(duplicateDomainRecords) = 0,
         errors  |-> wwwErrors \o dupErrors]

-----------------------------------------------------------------------------
(* More JavaScript helpers: case folding, code-unit order, sorting, JSON   *)

UpperChars == <<"A","B","C","D","E","F","G","H","I","J","K","L","M",
                "N","O","P","Q","R","S","T","U","V","W","X","Y","Z">>
LowerChars == <<"a","b","c","d","e","f","g","h","i","j","k","l","m",
                "n","o","p","q","r","s","t","u","v","w","x","y","z">>

\* Case folding of one character under the regular expression flag /i
FoldChar(c) ==
    IF \E i \in 1..26 : UpperChars[i] = c
    THEN LowerChars[CHOOSE i \in 1..26 : UpperChars[i] = c]
    ELSE c

FoldCase(s) == [i \in 1..Len(s) |-> FoldChar(s[i])]

\* The printable ASCII characters in code-unit order: codes 32..95, and
\* 97..126 (code 96, the grave accent, cannot be written in a string here).
AsciiLow == <<" ","!","\"","#","$","%","&","'","(",")","*","+",",","-",".","/",
              "0","1","2","3","4","5","6","7","8","9",":",";","<","=",">","?",
              "@","A","B","C","D","E","F","G","H","I","J","K","L","M","N","O",
              "P","Q","R","S","T","U","V","W","X","Y","Z","[","\\","]","^","_">>
AsciiHigh == <<"a","b","c","d","e","f","g","h","i","j","k","l","m","n","o",
               "p","q","r","s","t","u","v","w","x","y","z","{","|","}","~">>

\* The UTF-16 code unit of a character
CharCode(c) ==
    IF \E i \in 1..Len(AsciiLow) : AsciiLow[i] = c
    THEN 31 + (CHOOSE i \in 1..Len(AsciiLow) : AsciiLow[i] = c)
    ELSE 96 + (CHOOSE i \in 1..Len(AsciiHigh) : AsciiHigh[i] = c)

\* a < b in the order Array.prototype.sort uses without a comparator
StrLess(a, b) ==
    LET n == IF Len(a) < Len(b) THEN Len(a) ELSE Len(b)
        diff == {i \in 1..n : a[i] # b[i]}
    IN  IF diff = {} THEN Len(a) < Len(b)
        ELSE LET i == CHOOSE k \in diff : \A j \in diff : k <= j
             IN  CharCode(a[i]) < CharCode(b[i])

RECURSIVE InsertSorted(_, _)
InsertSorted(sorted, x) ==
    IF sorted = <<>> THEN <<x>>
    ELSE IF StrLess(x, Head(sorted)) THEN <<x>> \o sorted
    ELSE <<Head(sorted)>> \o InsertSorted(Tail(sorted), x)

\* Array.prototype.sort() on a list of strings
RECURSIVE SortStrings(_)
SortStrings(list) ==
    IF list = <<>> THEN <<>>
    ELSE InsertSorted(SortStrings(SubSeq(list, 1, Len(list) - 1)), list[Len(list)])

RECURSIVE ConcatAll(_)
ConcatAll(seqs) == IF seqs = <<>> THEN <<>> ELSE Head(seqs) \o ConcatAll(Tail(seqs))

\* Array.from(new Set(list)): first occurrences, in order
RECURSIVE Dedupe(_)
\* Dedupe keeping every occurrence
Dedupe_KeepsAll(list) == list

Dedupe(list) ==
    IF list = <<>> THEN <<>>
    ELSE LET init == Dedupe(SubSeq(list, 1, Len(list) - 1))
             x == list[Len(list)]
         IN  IF Contains(init, x) THEN init ELSE Append(init, x)

JsonQuote(s) ==
    <<"\"">> \o ConcatAll([i \in 1..Len(s) |->
                             IF s[i] = "\"" \/ s[i] = "\\" THEN <<"\\", s[i]>> ELSE <<s[i]>>])
             \o <<"\"">>

\* JSON.stringify of an array of strings
JsonStringify(list) ==
    <<"[">> \o ConcatAll([i \in 1..Len(list) |->
                            IF i = 1 THEN JsonQuote(list[i]) ELSE <<",">> \o JsonQuote(list[i])])
            \o <<"]">>

\* String.prototype.split(sep)[0]
SplitFirst(s, sep) == IF IndexOf(s, sep) = 0 THEN s ELSE SubSeq(s, 1, IndexOf(s, sep) - 1)

-----------------------------------------------------------------------------
(* DmarcValidator                                                          *)

\* dmarcRecord.match(/p=(reject|quarantine|none)/i): an unanchored search
PolicyMatch(dmarcRecord) ==
    LET folded == FoldCase(dmarcRecord)
    IN  Includes(folded, PReject) \/ Includes(folded, PQuarantine) \/ Includes(folded, PNone)

\* HasMultiple tolerating two records
HasMultiple_OffByOne(matching) == Len(matching) > 2

\* if (dmarcRecords.length > 1)
HasMultiple(matching) == Len(matching) > 1

\* DmarcValidator.validate
DmarcValidate(recs) ==
    LET matching == SelectSeq(recs, LAMBDA r : Includes(r, VDmarc1))
    IN  IF Len(matching) = 0
        THEN [isValid |-> FALSE, errors |-> <<Error("missingRecord", "No DMARC record found")>>]
        ELSE IF HasMultiple(matching)
        THEN [isValid |-> FALSE, errors |-> <<Error("multipleRecords", "Multiple DMARC records found")>>]
        ELSE IF ~PolicyMatch(matching[1])
        THEN [isValid |-> FALSE, errors |-> <<Error("invalidSyntax",
                                  "DMARC record missing required policy (p=) tag")>>]
        ELSE [isValid |-> TRUE, errors |-> <<>>]

-----------------------------------------------------------------------------
(* ResultAnalyzer.checkConsistency                                         *)

\* A bundle is the sequence of [provider, map] in the order of Object.values(results).

\* IsMetadataKey forgetting the authoritativeServers list
IsMetadataKey_OnlyChosenServer(name) == name = KeyAuthoritativeServer

\* recordName === 'authoritativeServer' || recordName === 'authoritativeServers'
IsMetadataKey(name) == name = KeyAuthoritativeServer \/ name = KeyAuthoritativeServers

\* All record names of the bundle (the Set recordNames)
RecordNames(res) == UNION {{res[p].map[i].key : i \in 1..Len(res[p].map)} : p \in 1..Len(res)}

Entry(m, k) == m[CHOOSE i \in 1..Len(m) : m[i].key = k]

\* ProviderCounted leaving out a provider that lacks the record name
ProviderCounted_PresentOnly(m, name) == HasKey(m, name) /\ Entry(m, name).isArray

\* The forEach callback returns early for a value that is neither an array nor undefined
ProviderCounted(m, name) == ~HasKey(m, name) \/ Entry(m, name).isArray

\* RecordsArray comparing every list as returned
RecordsArray_AsReturned(m, name) == IF HasKey(m, name) THEN Get(m, name) ELSE <<>>

\* providerResults[recordName] || [], sorted for a DMARC name
RecordsArray(m, name) ==
    LET raw == IF HasKey(m, name) THEN Get(m, name) ELSE <<>>
    IN  IF Includes(name, DmarcTag) /\ Len(raw) > 0 THEN SortStrings(raw) ELSE raw

\* The values of the Map recordValues for one record name
SerializedValues(res, name) ==
    {JsonStringify(RecordsArray(res[p].map, name)) :
        p \in {q \in 1..Len(res) : ProviderCounted(res[q].map, name)}}

HasValidResults(res, name) ==
    \E p \in 1..Len(res) :
        ProviderCounted(res[p].map, name) /\ Len(RecordsArray(res[p].map, name)) > 0

CheckedNames(res) == {name \in RecordNames(res) : ~IsMetadataKey(name)}

CheckConsistency(res) ==
    [consistent |-> \A name \in CheckedNames(res) :
                       HasValidResults(res, name) => Cardinality(SerializedValues(res, name)) <= 1,
     hasSuccessfulResults |-> \E name \in CheckedNames(res) : HasValidResults(res, name)]

-----------------------------------------------------------------------------
(* ResultAnalyzer.validateResults                                          *)

IsDkimKeyOf(dom, key) ==
    \/ Includes(key, K1Prefix \o dom)
    \/ Includes(key, K2Prefix \o dom)
    \/ Includes(key, K3Prefix \o dom)

\* const hasNoRecords = !Object.values(results).some(...)
HasNoRecords(dom, res) ==
    ~ \E p \in 1..Len(res) : \E i \in 1..Len(res[p].map) :
          /\ IsDkimKeyOf(dom, res[p].map[i].key)
          /\ res[p].map[i].isArray
          /\ Len(res[p].map[i].val) > 0

\* Consolidate keeping, for each record name, only the first provider's list
Consolidate_FirstProviderWins(res) ==
    LET all == ConcatAll([p \in 1..Len(res) |-> res[p].map])
        kept == SelectSeq(all, LAMBDA e : ~IsMetadataKey(e.key) /\ e.isArray)
        names == Dedupe(Keys(kept))
    IN  [i \in 1..Len(names) |->
            ArrayEntry(names[i], kept[CHOOSE j \in 1..Len(kept) : kept[j].key = names[i]].val)]

\* The consolidation loops and the de-duplication that follows them
Consolidate(res) ==
    LET all == ConcatAll([p \in 1..Len(res) |-> res[p].map])
        kept == SelectSeq(all, LAMBDA e : ~IsMetadataKey(e.key) /\ e.isArray)
        names == Dedupe(Keys(kept))
        ValuesOf(name) ==
            LET sel == SelectSeq(kept, LAMBDA e : e.key = name)
            IN  ConcatAll([i \in 1..Len(sel) |-> sel[i].val])
    IN  [i \in 1..Len(names) |-> ArrayEntry(names[i], Dedupe(ValuesOf(names[i])))]

\* if (dkimErrors.errors.length > 0) dkimResult.errors = dkimErrors.errors.concat(dkimResult.errors)
MergeCommonErrors(dk, ce) ==
    IF Len(ce.errors) > 0
    THEN [isValid |-> dk.isValid, errors |-> ce.errors \o dk.errors]
    ELSE dk

\* ProbeNeeded looking only at what checkCommonErrors reported
ProbeNeeded_IgnoresRecords(dom, res, ce) == Len(ce.errors) = 0

\* if (hasNoRecords && dkimErrors.errors.length === 0)
ProbeNeeded(dom, res, ce) == HasNoRecords(dom, res) /\ Len(ce.errors) = 0

ProbeKeyNames == <<K1Prefix, K2Prefix, K3Prefix>>

\* The processing of the three probe answers, in the order k1, k2, k3
FoldProbe(dk, dom, answers) ==
    LET wwwDomain == WwwDot \o dom
        ValidCnames(i) == SelectSeq(answers[i], IsDkimCname)
        hit == SelectSeq(<<1, 2, 3>>, LAMBDA i : Len(ValidCnames(i)) > 0)
        recordKey(i) == ProbeKeyNames[i] \o wwwDomain
        probeErrors == [j \in 1..Len(hit) |->
            ErrorAt("wrongSubdomain", "DKIM record published for incorrect subdomain",
                    recordKey(hit[j]),
                    SplitFirst(recordKey(hit[j]), Dot \o DomainKeyDot) \o Dot \o DomainKeyDot \o dom)]
    IN  IF Len(hit) > 0
        THEN [isValid |-> FALSE, errors |-> dk.errors \o probeErrors]
        ELSE dk

\* (consolidatedRecords[`_dmarc.${domain}`] || []).sort() sorts the stored array in place
SortDmarcInPlace(recs, dom) ==
    [i \in 1..Len(recs) |->
        IF recs[i].key = DmarcPrefix \o dom
        THEN ArrayEntry(recs[i].key, SortStrings(recs[i].val))
        ELSE recs[i]]

\* OverallValid with the consistency verdict left out of the conjunction
OverallValid_NoConsistency(dk, dm, cons) == dk.isValid /\ dm.isValid

\* const isValid = dkimResult.isValid && dmarcResult.isValid && consistencyResult.consistent
OverallValid(dk, dm, cons) == dk.isValid /\ dm.isValid /\ cons.consistent

NoResult == [isValid |-> FALSE, errors |-> <<>>]
NoConsistency == [consistent |-> FALSE, hasSuccessfulResults |-> FALSE]
NoSummary == [isValid |-> FALSE, dkim |-> NoResult, dmarc |-> NoResult,
              consistency |-> NoConsistency]

\* No validation is in progress
AnalyzerIdle ==
    /\ domain = <<>>
    /\ results = <<>>
    /\ records = <<>>
    /\ dmarcRecords = <<>>
    /\ dkimResult = NoResult
    /\ dkimErrors = NoResult
    /\ dmarcResult = NoResult
    /\ consistencyResult = NoConsistency
    /\ summary = NoSummary
    /\ wwwAnswers = <<>>
    /\ returned = <<>>
    /\ pc = "idle"

\* The tail of validateResults, from "Validate DMARC" to the return
Finish(dk, recs) ==
    LET sorted == SortDmarcInPlace(recs, domain)
        dmarcList == GetOrEmpty(sorted, DmarcPrefix \o domain)
        dm == DmarcValidate(dmarcList)
        cons == CheckConsistency(results)
    IN  /\ records' = sorted
        /\ dmarcRecords' = dmarcList
        /\ dkimResult' = dk
        /\ dmarcResult' = dm
        /\ consistencyResult' = cons
        /\ summary' = [isValid |-> OverallValid(dk, dm, cons), dkim |-> dk,
                       dmarc |-> dm, consistency |-> cons]
        /\ returned' = Append(returned, [isValid |-> OverallValid(dk, dm, cons), dkim |-> dk,
                                         dmarc |-> dm, consistency |-> cons])
        /\ pc' = "done"

\* validateResults up to the await of the www probe, or to its return when
\* the probe is not run
ValidateResults ==
    /\ UNCHANGED nonAnalyzerVars
    /\ pc = "start"
    /\ LET recs == Consolidate(results)
           ce == CheckCommonErrors(domain, recs)
           dk == MergeCommonErrors(DkimValidate(domain, recs), ce)
       IN  /\ dkimErrors' = ce
           /\ IF ProbeNeeded(domain, results, ce)
              THEN /\ pc' = "probe"
                   /\ records' = recs
                   /\ dkimResult' = dk
                   /\ UNCHANGED <<dmarcRecords, dmarcResult, consistencyResult, summary, returned>>
              ELSE Finish(dk, recs)
    /\ UNCHANGED <<domain, results, wwwAnswers>>

\* What a probe query can resolve with (queryDkimRecord turns a failure into [])
ProbeAnswers(i) ==
    {<<>>, <<OtherTarget>>, <<(<<DKIM1, DKIM2, DKIM3>>)[i]>>, <<(<<DKIM2, DKIM3, DKIM1>>)[i]>>}

\* Promise.all of the three probe queries settles; the rest of validateResults runs
WwwProbeReturn ==
    /\ UNCHANGED nonAnalyzerVars
    /\ pc = "probe"
    /\ \E a1 \in ProbeAnswers(1), a2 \in ProbeAnswers(2), a3 \in ProbeAnswers(3) :
          /\ wwwAnswers' = <<a1, a2, a3>>
          /\ Finish(FoldProbe(dkimResult, domain, <<a1, a2, a3>>), records)
    /\ UNCHANGED <<domain, results, dkimErrors>>

-----------------------------------------------------------------------------
(* The bundles validateResults is run on                                   *)

\* At most this many providers answer differently from the others
MaxDeviants == 1

Providers == <<"google", "cloudflare", "openDNS", "authoritative">>

Domains == {DomA, DomWwwA}

DmarcReject == <<"v","=","D","M","A","R","C","1",";"," ","p","=","r","e","j","e","c","t">>
DmarcNone == <<"v","=","D","M","A","R","C","1",";"," ","p","=","n","o","n","e">>
NsHost == <<"n","s","1",".","a",".","i","o">>

\* One provider's answers to the four queries of the handler
AnswerSets ==
    [k1 : {<<>>, <<DKIM1>>},
     k2 : {<<>>, <<DKIM2>>, <<DKIM3>>},
     k3 : {<<>>, <<DKIM3>>, <<DKIM2>>},
     dmarc : {<<>>, <<DmarcReject>>, <<DmarcNone>>}]

\* The per-provider object the handler builds by spreading the four query results
ProviderMap(dom, provider, a) ==
    LET answered == a.k1 # <<>> \/ a.k2 # <<>> \/ a.k3 # <<>> \/ a.dmarc # <<>>
        meta == IF provider # "authoritative" THEN <<>>
                ELSE <<ArrayEntry(KeyAuthoritativeServers, <<NsHost>>)>> \o
                     (IF answered
                      THEN <<[key |-> KeyAuthoritativeServer, isArray |-> FALSE, val |-> NsHost]>>
                      ELSE <<>>)
    IN  <<ArrayEntry(K1Prefix \o dom, a.k1)>> \o meta \o
        <<ArrayEntry(K2Prefix \o dom, a.k2),
          ArrayEntry(K3Prefix \o dom, a.k3),
          ArrayEntry(DmarcPrefix \o dom, a.dmarc)>>

Bundle(dom, answers) ==
    [p \in 1..Len(Providers) |->
        [provider |-> Providers[p], map |-> ProviderMap(dom, Providers[p], answers[p])]]

Init ==
    /\ domain \in Domains
    /\ \E base \in AnswerSets, dev \in AnswerSets :
       \E deviants \in SUBSET (1..Len(Providers)) :
          /\ Cardinality(deviants) <= MaxDeviants
          /\ results = Bundle(domain, [p \in 1..Len(Providers) |->
                                          IF p \in deviants THEN dev ELSE base])
    /\ records = <<>>
    /\ dmarcRecords = <<>>
    /\ dkimResult = NoResult
    /\ dkimErrors = NoResult
    /\ dmarcResult = NoResult
    /\ consistencyResult = NoConsistency
    /\ summary = NoSummary
    /\ wwwAnswers = <<>>
    /\ returned = <<>>
    /\ NonAnalyzerIdle
    /\ pc = "start"

Next == ValidateResults \/ WwwProbeReturn

Spec == Init /\ [][Next]_vars

-----------------------------------------------------------------------------
(* Properties of validateResults (specification Spec)                      *)

HasErrorOfType(errors, t) == \E i \in 1..Len(errors) : errors[i].type = t

\* C1: the summary's isValid is the conjunction of the dkim verdict, the
\* dmarc verdict and the consistency verdict stored in that same summary,
\* also when the www probe has changed the dkim result.
C1_OverallIsConjunction ==
    pc = "done" =>
        summary.isValid = (summary.dkim.isValid /\ summary.dmarc.isValid
                           /\ summary.consistency.consistent)

\* A finished run in which only the www probe made the domain invalid
C1_Witness ==
    /\ pc = "done"
    /\ dkimErrors.errors = <<>>
    /\ HasErrorOfType(summary.dkim.errors, "wrongSubdomain")
    /\ summary.dmarc.isValid
    /\ summary.consistency.consistent
    /\ ~summary.isValid

\* All four providers return exactly [dkim2.mcsv.net] for k2 and [dkim3.mcsv.net] for k3
AllProvidersCorrectK2K3 ==
    /\ Len(results) = 4
    /\ \A p \in 1..Len(results) :
          /\ HasKey(results[p].map, K2Prefix \o domain)
          /\ Get(results[p].map, K2Prefix \o domain) = <<DKIM2>>
          /\ HasKey(results[p].map, K3Prefix \o domain)
          /\ Get(results[p].map, K3Prefix \o domain) = <<DKIM3>>

C9_CommonErrorsFirstAndInvalid ==
    (pc = "done" /\ Len(dkimErrors.errors) > 0) =>
        /\ summary.dkim.errors = dkimErrors.errors \o DkimValidate(domain, records).errors
        /\ ~summary.dkim.isValid

\* No provider of the bundle has a non-empty list under k1, k2 or k3 of the domain
NoDkimListAnywhere ==
    \A p \in 1..Len(results) : \A i \in 1..3 :
        GetOrEmpty(results[p].map, ProbeKeyNames[i] \o domain) = <<>>

\* The www probe has returned
Probed == Len(wwwAnswers) = 3

ProbeHit(i) == \E j \in 1..Len(wwwAnswers[i]) : wwwAnswers[i][j] \in {DKIM1, DKIM2, DKIM3}

\* What validateResults resolves with when the probe block is not entered
SummaryWithoutProbe ==
    LET recs == Consolidate(results)
        dk == MergeCommonErrors(DkimValidate(domain, recs), CheckCommonErrors(domain, recs))
        dm == DmarcValidate(SortStrings(GetOrEmpty(recs, DmarcPrefix \o domain)))
        cons == CheckConsistency(results)
    IN  [isValid |-> dk.isValid /\ dm.isValid /\ cons.consistent,
         dkim |-> dk, dmarc |-> dm, consistency |-> cons]

\* C11: validateResults runs the www probe exactly when no provider has a
\* non-empty list for k1, k2 or k3 of the domain and checkCommonErrors
\* reported nothing; each probed name kN._domainkey.www.<domain> that
\* answers with a known DKIM target adds a wrongSubdomain error with that
\* name as actual and kN._domainkey.<domain> as expected, and makes
\* dkim.isValid false; a probe without any known target leaves the summary
\* as it would be without the probe.
C11_WwwProbe ==
    /\ pc = "probe" => (NoDkimListAnywhere /\ dkimErrors.errors = <<>>)
    /\ pc = "done" =>
          /\ Probed <=> (NoDkimListAnywhere /\ dkimErrors.errors = <<>>)
          /\ Probed =>
                /\ \A i \in 1..3 : ProbeHit(i) =>
                      /\ \E e \in 1..Len(summary.dkim.errors) :
                            /\ summary.dkim.errors[e].type = "wrongSubdomain"
                            /\ summary.dkim.errors[e].actual =
                                  ProbeKeyNames[i] \o WwwDot \o domain
                            /\ summary.dkim.errors[e].expected =
                                  ProbeKeyNames[i] \o domain
                      /\ ~summary.dkim.isValid
                /\ (\A i \in 1..3 : ~ProbeHit(i)) => summary = SummaryWithoutProbe

C11_Witness ==
    /\ pc = "done"
    /\ Probed
    /\ ProbeHit(2)
    /\ ~ProbeHit(1)
    /\ HasErrorOfType(summary.dkim.errors, "wrongSubdomain")
    /\ ~summary.dkim.isValid

-----------------------------------------------------------------------------
(* DkimValidator called directly (specification SpecDkim)                  *)

\* A record name that the input map does not hold
Absent == <<Undefined>>

NameK1 == K1Prefix \o DomA
NameK2 == K2Prefix \o DomA
NameK3 == K3Prefix \o DomA
NameWwwK2 == K2Prefix \o DomWwwA
NameWwwK3 == K3Prefix \o DomWwwA
NameDupK2 == K2Prefix \o DomA \o Dot \o DomA

\* The value lists tried for each record name of the input map
DkimInputs ==
    [n1 : {Absent, <<>>, <<DKIM1>>, <<OtherTarget>>},
     n2 : {Absent, <<>>, <<DKIM2>>, <<DKIM3>>, <<DKIM3, OtherTarget>>},
     n3 : {Absent, <<>>, <<DKIM3>>, <<DKIM2>>, <<OtherTarget, DKIM2>>},
     w2 : {Absent, <<>>, <<DKIM2>>, <<DKIM3>>, <<OtherTarget>>},
     w3 : {Absent, <<DKIM3>>, <<DKIM2>>},
     d2 : {Absent, <<DKIM2>>}]

RecordMapOf(c) ==
    SelectSeq(<<ArrayEntry(NameK1, c.n1), ArrayEntry(NameK2, c.n2), ArrayEntry(NameK3, c.n3),
                ArrayEntry(NameWwwK2, c.w2), ArrayEntry(NameWwwK3, c.w3),
                ArrayEntry(NameDupK2, c.d2)>>,
              LAMBDA e : e.val # Absent)

InitDkim ==
    /\ domain \in Domains
    /\ \E c \in DkimInputs : records = RecordMapOf(c)
    /\ results = <<>>
    /\ dmarcRecords = <<>>
    /\ dkimResult = NoResult
    /\ dkimErrors = NoResult
    /\ dmarcResult = NoResult
    /\ consistencyResult = NoConsistency
    /\ summary = NoSummary
    /\ wwwAnswers = <<>>
    /\ returned = <<>>
    /\ NonAnalyzerIdle
    /\ pc = "input"

\* validator.validate(domain, records)
CallValidate ==
    /\ UNCHANGED nonAnalyzerVars
    /\ pc = "input"
    /\ dkimResult' = DkimValidate(domain, records)
    /\ pc' = "validate"
    /\ UNCHANGED <<returned, wwwAnswers, domain, results, records, dmarcRecords, dkimErrors, dmarcResult,
                   consistencyResult, summary>>

\* validator.checkCommonErrors(domain, records)
CallCheckCommonErrors ==
    /\ UNCHANGED nonAnalyzerVars
    /\ pc = "input"
    /\ dkimErrors' = CheckCommonErrors(domain, records)
    /\ pc' = "checkCommonErrors"
    /\ UNCHANGED <<returned, wwwAnswers, domain, results, records, dmarcRecords, dkimResult, dmarcResult,
                   consistencyResult, summary>>

NextDkim == CallValidate \/ CallCheckCommonErrors

SpecDkim == InitDkim /\ [][NextDkim]_vars

InK1 == GetOrEmpty(records, K1Prefix \o domain)
InK2 == GetOrEmpty(records, K2Prefix \o domain)
InK3 == GetOrEmpty(records, K3Prefix \o domain)

IsSingleError(res, t) == ~res.isValid /\ Len(res.errors) = 1 /\ res.errors[1].type = t

\* C3: with dkim3.mcsv.net in the k2 list and dkim2.mcsv.net in the k3 list,
\* and neither list holding its own correct target, validate returns invalid
\* with exactly one error, of type switchedRecords, whatever k1 holds.
C3_SwitchedRecords ==
    (/\ pc = "validate"
     /\ Contains(InK2, DKIM3) /\ Contains(InK3, DKIM2)
     /\ ~Contains(InK2, DKIM2) /\ ~Contains(InK3, DKIM3)) =>
        IsSingleError(dkimResult, "switchedRecords")

\* Switched k2/k3, k2 holding a second value, beside a correct k1 record
C3_Witness ==
    /\ pc = "validate"
    /\ InK2 = <<DKIM3, OtherTarget>> /\ InK3 = <<DKIM2>>
    /\ InK1 = <<DKIM1>>
    /\ IsSingleError(dkimResult, "switchedRecords")

\* C4: when k2 and k3 are not both non-empty, validate decides on k1 alone:
\* valid iff k1 contains dkim.mcsv.net; otherwise exactly one error,
\* missingRecords when k1, k2 and k3 are all empty, invalidRecords otherwise.
C4_FallbackOnK1 ==
    (pc = "validate" /\ ~(Len(InK2) > 0 /\ Len(InK3) > 0)) =>
        IF Contains(InK1, DKIM1)
        THEN dkimResult.isValid /\ dkimResult.errors = <<>>
        ELSE IF InK1 = <<>> /\ InK2 = <<>> /\ InK3 = <<>>
        THEN IsSingleError(dkimResult, "missingRecords")
        ELSE IsSingleError(dkimResult, "invalidRecords")

\* A k1 record with a foreign target and no k2/k3: invalidRecords
C4_Witness ==
    /\ pc = "validate"
    /\ InK1 = <<OtherTarget>> /\ InK2 = <<>> /\ InK3 = <<>>
    /\ IsSingleError(dkimResult, "invalidRecords")

\* A record name with the www label that follows "_domainkey." removed
WithoutWwwLabel(name) == Replace(name, DomainKeyWwwDot, DomainKeyDot)

\* C10 as stated: every wrongSubdomain error of checkCommonErrors has actual =
\* the offending record name and expected = that name with the "www." label
\* removed, so expected differs from actual and holds no "_domainkey.www.".
C10_ExpectedDropsWww ==
    pc = "checkCommonErrors" =>
        \A i \in 1..Len(dkimErrors.errors) :
            dkimErrors.errors[i].type = "wrongSubdomain" =>
                /\ HasKey(records, dkimErrors.errors[i].actual)
                /\ dkimErrors.errors[i].expected = WithoutWwwLabel(dkimErrors.errors[i].actual)
                /\ dkimErrors.errors[i].expected # dkimErrors.errors[i].actual
                /\ ~Includes(dkimErrors.errors[i].expected, DomainKeyWwwDot)

-----------------------------------------------------------------------------
(* DmarcValidator called directly (specification SpecDmarc)                *)

\* Longest list of TXT values handed to the validator
MaxDmarcRecords == 2

DmarcInvalidPolicy == <<"v","=","D","M","A","R","C","1",";"," ","p","=","i","n","v","a","l","i","d">>
DmarcOnlySubdomainPolicy == <<"v","=","D","M","A","R","C","1",";"," ","s","p","=","r","e","j","e","c","t">>
DmarcUpperCase == <<"v","=","D","M","A","R","C","1",";"," ","P","=","Q","u","a","r","a","n","t","i","n","e">>
DmarcLongerValue == <<"v","=","D","M","A","R","C","1",";"," ","p","=","n","o","n","e","s","u","c","h">>
DmarcNoTags == <<"v","=","D","M","A","R","C","1">>
SpfRecord == <<"v","=","s","p","f","1"," ","-","a","l","l">>

TxtSamples == {DmarcReject, DmarcNone, DmarcInvalidPolicy, DmarcOnlySubdomainPolicy,
               DmarcUpperCase, DmarcLongerValue, DmarcNoTags, SpfRecord}

InitDmarc ==
    /\ dmarcRecords \in UNION {[1..n -> TxtSamples] : n \in 0..MaxDmarcRecords}
    /\ domain = <<>>
    /\ results = <<>>
    /\ records = <<>>
    /\ dkimResult = NoResult
    /\ dkimErrors = NoResult
    /\ dmarcResult = NoResult
    /\ consistencyResult = NoConsistency
    /\ summary = NoSummary
    /\ wwwAnswers = <<>>
    /\ returned = <<>>
    /\ NonAnalyzerIdle
    /\ pc = "input"

\* validator.validate(records)
CallDmarcValidate ==
    /\ UNCHANGED nonAnalyzerVars
    /\ pc = "input"
    /\ dmarcResult' = DmarcValidate(dmarcRecords)
    /\ pc' = "dmarc"
    /\ UNCHANGED <<returned, wwwAnswers, domain, results, records, dmarcRecords, dkimResult, dkimErrors,
                   consistencyResult, summary>>

NextDmarc == CallDmarcValidate

SpecDmarc == InitDmarc /\ [][NextDmarc]_vars

\* The positions of the input values that contain v=DMARC1
DmarcPositions == {i \in 1..Len(dmarcRecords) : Includes(dmarcRecords[i], VDmarc1)}

\* C5: no value containing v=DMARC1 gives the single error missingRecord; two
\* or more give the single error multipleRecords, whatever their policies.
C5_CountClassifies ==
    pc = "dmarc" =>
        /\ Cardinality(DmarcPositions) = 0 => IsSingleError(dmarcResult, "missingRecord")
        /\ Cardinality(DmarcPositions) >= 2 => IsSingleError(dmarcResult, "multipleRecords")

\* Two well-formed DMARC records
C5_Witness ==
    /\ pc = "dmarc"
    /\ dmarcRecords = <<DmarcReject, DmarcNone>>
    /\ IsSingleError(dmarcResult, "multipleRecords")

IsSpaces(s) == \A i \in 1..Len(s) : s[i] = " "

\* s with its leading and trailing spaces removed equals w
TrimmedIs(s, w) ==
    \E a \in 0..Len(s) : \E b \in a..Len(s) :
        IsSpaces(SubSeq(s, 1, a)) /\ SubSeq(s, a + 1, b) = w /\ IsSpaces(SubSeq(s, b + 1, Len(s)))

\* The tag list of a record, read as "name=value" items separated by ";":
\* position i starts a tag iff only spaces separate it from the previous ";"
\* (or from the start of the record)
TagStartsAt(r, i) ==
    \A j \in 1..(i - 1) : (r[j] # " " /\ r[j] # ";") => \E k \in (j + 1)..(i - 1) : r[k] = ";"

TagEnd(r, i) ==
    LET semis == {e \in i..Len(r) : r[e] = ";"}
    IN  IF semis = {} THEN Len(r) ELSE (CHOOSE e \in semis : \A f \in semis : e <= f) - 1

\* The record has a tag named p whose value is reject, quarantine or none
HasOwnPolicyTag(record) ==
    LET r == FoldCase(record)
    IN  \E i \in 1..(Len(r) - 1) :
            /\ TagStartsAt(r, i)
            /\ r[i] = "p" /\ r[i + 1] = "="
            /\ \E w \in {SubSeq(PReject, 3, Len(PReject)),
                         SubSeq(PQuarantine, 3, Len(PQuarantine)),
                         SubSeq(PNone, 3, Len(PNone))} :
                   TrimmedIs(SubSeq(r, i + 2, TagEnd(r, i)), w)

\* C6 as stated: with exactly one value containing v=DMARC1, validate returns
\* valid iff that record has a p= tag of its own with value reject,
\* quarantine or none; otherwise the single error invalidSyntax.
C6_PolicyTagDecides ==
    (pc = "dmarc" /\ Cardinality(DmarcPositions) = 1) =>
        LET r == dmarcRecords[CHOOSE i \in DmarcPositions : TRUE]
        IN  IF HasOwnPolicyTag(r)
            THEN dmarcResult.isValid /\ dmarcResult.errors = <<>>
            ELSE IsSingleError(dmarcResult, "invalidSyntax")

-----------------------------------------------------------------------------
(* checkConsistency called directly (specification SpecCons)               *)

NameDmarc == DmarcPrefix \o DomA

\* What one provider holds for the CNAME name and for the DMARC name
ConsInputs ==
    [cname : {Absent, <<>>, <<DKIM2>>, <<DKIM2, DKIM3>>, <<DKIM3, DKIM2>>},
     txt   : {Absent, <<>>, <<DmarcReject, DmarcNone>>, <<DmarcNone, DmarcReject>>}]

\* The authoritative provider's metadata entries, when it carries them
Metadata ==
    <<ArrayEntry(KeyAuthoritativeServers, <<NsHost>>),
      [key |-> KeyAuthoritativeServer, isArray |-> FALSE, val |-> NsHost]>>

ConsProviderMap(provider, c, withMetadata) ==
    SelectSeq(<<ArrayEntry(NameK2, c.cname), ArrayEntry(NameDmarc, c.txt)>>,
              LAMBDA e : e.val # Absent)
    \o (IF provider = "authoritative" /\ withMetadata THEN Metadata ELSE <<>>)

InitCons ==
    /\ \E base \in ConsInputs, dev \in ConsInputs, withMetadata \in BOOLEAN :
       \E deviants \in SUBSET (1..Len(Providers)) :
          /\ Cardinality(deviants) <= MaxDeviants
          /\ results = [p \in 1..Len(Providers) |->
                          [provider |-> Providers[p],
                           map |-> ConsProviderMap(Providers[p],
                                       IF p \in deviants THEN dev ELSE base, withMetadata)]]
    /\ domain = <<>>
    /\ records = <<>>
    /\ dmarcRecords = <<>>
    /\ dkimResult = NoResult
    /\ dkimErrors = NoResult
    /\ dmarcResult = NoResult
    /\ consistencyResult = NoConsistency
    /\ summary = NoSummary
    /\ wwwAnswers = <<>>
    /\ returned = <<>>
    /\ NonAnalyzerIdle
    /\ pc = "input"

\* analyzer.checkConsistency(results)
CallCheckConsistency ==
    /\ UNCHANGED nonAnalyzerVars
    /\ pc = "input"
    /\ consistencyResult' = CheckConsistency(results)
    /\ pc' = "consistency"
    /\ UNCHANGED <<returned, wwwAnswers, domain, results, records, dmarcRecords, dkimResult, dkimErrors,
                   dmarcResult, summary>>

NextCons == CallCheckConsistency

SpecCons == InitCons /\ [][NextCons]_vars

\* The record names of the bundle, the two metadata fields left out
BundleRecordNames ==
    {name \in RecordNames(results) :
        name # KeyAuthoritativeServer /\ name # KeyAuthoritativeServers}

\* The list provider p returns for a name (empty when it lacks the name)
ListOf(p, name) == GetOrEmpty(results[p].map, name)

\* C7: when, for some record name, one provider returns a non-empty list and
\* another an empty list (or lacks the name), hasSuccessfulResults is true
\* and consistent is false.
C7_MixedIsInconsistent ==
    (/\ pc = "consistency"
     /\ \E name \in BundleRecordNames : \E p, q \in 1..Len(results) :
           Len(ListOf(p, name)) > 0 /\ Len(ListOf(q, name)) = 0) =>
        (consistencyResult.hasSuccessfulResults /\ ~consistencyResult.consistent)

\* One provider lacks a name for which the three others return a record
C7_Witness ==
    /\ pc = "consistency"
    /\ \E name \in BundleRecordNames : \E q \in 1..Len(results) :
          /\ ~HasKey(results[q].map, name)
          /\ \A p \in 1..Len(results) \ {q} : Len(ListOf(p, name)) > 0
    /\ ~consistencyResult.consistent

\* C8: when all providers return the same list for every record name (all
\* empty included), consistent is true, with or without the metadata fields
\* authoritativeServer / authoritativeServers on the authoritative provider.
C8_AgreementIsConsistent ==
    (/\ pc = "consistency"
     /\ \A name \in BundleRecordNames : \A p, q \in 1..Len(results) :
           ListOf(p, name) = ListOf(q, name)) =>
        consistencyResult.consistent

\* Full agreement on a non-empty record, the authoritative provider carrying metadata
C8_Witness ==
    /\ pc = "consistency"
    /\ HasKey(results[4].map, KeyAuthoritativeServers)
    /\ HasKey(results[4].map, KeyAuthoritativeServer)
    /\ \A name \in BundleRecordNames : \A p, q \in 1..Len(results) :
          ListOf(p, name) = ListOf(q, name)
    /\ \E name \in BundleRecordNames : Len(ListOf(1, name)) > 0
    /\ consistencyResult.consistent

-----------------------------------------------------------------------------
(* The consolidated record map (specification SpecUnion)                   *)

\* One provider's answers: lists of two values in either order, CNAME and TXT
UnionAnswerSets ==
    [k1 : {<<>>},
     k2 : {<<>>, <<DKIM2>>, <<DKIM2, OtherTarget>>, <<OtherTarget, DKIM2>>},
     k3 : {<<>>},
     dmarc : {<<>>, <<DmarcReject, DmarcNone>>, <<DmarcNone, DmarcReject>>}]

InitUnion ==
    /\ domain = DomA
    /\ \E base \in UnionAnswerSets, dev \in UnionAnswerSets :
       \E deviants \in SUBSET (1..Len(Providers)) :
          /\ Cardinality(deviants) <= MaxDeviants
          /\ results = Bundle(domain, [p \in 1..Len(Providers) |->
                                          IF p \in deviants THEN dev ELSE base])
    /\ records = <<>>
    /\ dmarcRecords = <<>>
    /\ dkimResult = NoResult
    /\ dkimErrors = NoResult
    /\ dmarcResult = NoResult
    /\ consistencyResult = NoConsistency
    /\ summary = NoSummary
    /\ wwwAnswers = <<>>
    /\ returned = <<>>
    /\ NonAnalyzerIdle
    /\ pc = "start"

SpecUnion == InitUnion /\ [][Next]_vars

\* The DKIM and DMARC results of validateResults as functions of the bundle
\* and of the probe answers
DkimOf(dom, res, answers) ==
    LET recs == Consolidate(res)
        ce == CheckCommonErrors(dom, recs)
        dk == MergeCommonErrors(DkimValidate(dom, recs), ce)
    IN  IF ProbeNeeded(dom, res, ce) THEN FoldProbe(dk, dom, answers) ELSE dk

DmarcOf(dom, res) ==
    DmarcValidate(GetOrEmpty(SortDmarcInPlace(Consolidate(res), dom), DmarcPrefix \o dom))

\* The four verdicts of validateResults as a function of the same
VerdictOf(dom, res, answers) ==
    LET dk == DkimOf(dom, res, answers).isValid
        dm == DmarcOf(dom, res).isValid
        cons == CheckConsistency(res).consistent
    IN  <<dk /\ dm /\ cons, dk, dm, cons>>

Verdict(s) == <<s.isValid, s.dkim.isValid, s.dmarc.isValid, s.consistency.consistent>>

Reverse(list) == [i \in 1..Len(list) |-> list[Len(list) + 1 - i]]

ProviderOrders ==
    {f \in [1..Len(Providers) -> 1..Len(Providers)] :
        \A i, j \in 1..Len(Providers) : i # j => f[i] # f[j]}

\* The bundle with its providers listed in another order
Reordered(res, f) == [p \in 1..Len(res) |-> res[f[p]]]

\* The bundle with the lists of the providers in S listed backwards, for
\* the record names that satisfy Chosen
ValuesReversed(res, S, Chosen(_)) ==
    [p \in 1..Len(res) |->
        [provider |-> res[p].provider,
         map |-> [i \in 1..Len(res[p].map) |->
                    IF p \in S /\ res[p].map[i].isArray /\ Chosen(res[p].map[i].key)
                    THEN ArrayEntry(res[p].map[i].key, Reverse(res[p].map[i].val))
                    ELSE res[p].map[i]]]]

AnyName(name) == TRUE

IsDmarcName(name) == Includes(name, DmarcTag)

\* The names providers report with a list, and the values reported for a name
ReportedNames ==
    {name \in RecordNames(results) :
        /\ name # KeyAuthoritativeServer /\ name # KeyAuthoritativeServers
        /\ \E p \in 1..Len(results) :
              HasKey(results[p].map, name) /\ Entry(results[p].map, name).isArray}

ReportedValues(name) ==
    UNION {{ListOf(p, name)[j] : j \in 1..Len(ListOf(p, name))} : p \in 1..Len(results)}

\* The consolidated map is the de-duplicated union, without the metadata keys
ConsolidatedIsUnion ==
    /\ {records[i].key : i \in 1..Len(records)} = ReportedNames
    /\ \A i, j \in 1..Len(records) : records[i].key = records[j].key => i = j
    /\ \A i \in 1..Len(records) :
          /\ {records[i].val[j] : j \in 1..Len(records[i].val)} = ReportedValues(records[i].key)
          /\ \A j, k \in 1..Len(records[i].val) :
                records[i].val[j] = records[i].val[k] => j = k
    /\ ~HasKey(records, KeyAuthoritativeServer)
    /\ ~HasKey(records, KeyAuthoritativeServers)

-----------------------------------------------------------------------------
(* RequestThrottler (specification SpecThrottle)                           *)

\* At most this many checkAllowed calls are made
MaxCalls == 4

\* The clock stops here
MaxNow == 4

\* 60 * 60 * 1000, with the clock counting half hours
HourInMs == 2

\* The constructor arguments: small limits, so that every limit is reached
DefaultLimit == 3

IpClassC == <<"1","9","2",".","1","6","8",".","1",".","1">>
IpExact == <<"1","9","2",".","1","6","8",".","1",".","2">>
IpZero == <<"1","0",".","0",".","0",".","1">>
IpPlain == <<"8",".","8",".","8",".","8">>
IpV6 == <<":",":","1">>
ClassCKey == <<"1","9","2",".","1","6","8",".","1",".","*">>
Star == <<"*">>

Overrides ==
    <<[key |-> IpExact, val |-> 1],
      [key |-> ClassCKey, val |-> 2],
      [key |-> IpZero, val |-> 0]>>

Ips == {IpClassC, IpExact, IpZero, IpPlain, IpV6}

\* String.prototype.split with a one-character separator
RECURSIVE SplitBy(_, _)
SplitBy(s, sep) ==
    LET i == IndexOf(s, sep)
    IN  IF i = 0 THEN <<s>>
        ELSE <<SubSeq(s, 1, i - 1)>> \o SplitBy(SubSeq(s, i + 1, Len(s)), sep)

\* if (this.overrides[key]): the entry exists and its value is not falsy
OverrideIsTruthy(overrides, key) == HasKey(overrides, key) /\ Get(overrides, key) # 0

ClassCOf(ipParts) == ipParts[1] \o Dot \o ipParts[2] \o Dot \o ipParts[3] \o Dot \o Star

GetLimitForIp(ip) ==
    IF OverrideIsTruthy(Overrides, ip) THEN Get(Overrides, ip)
    ELSE LET ipParts == SplitBy(ip, Dot)
         IN  IF Len(ipParts) = 4 /\ OverrideIsTruthy(Overrides, ClassCOf(ipParts))
             THEN Get(Overrides, ClassCOf(ipParts))
             ELSE DefaultLimit

NoTracking == [present |-> FALSE, count |-> 0, resetTime |-> 0]

\* ipTracking after "Get or initialize tracking for this IP"
TrackingFor(ip) ==
    IF ~ipCounts[ip].present \/ ipCounts[ip].resetTime < now
    THEN [present |-> TRUE, count |-> 0, resetTime |-> now + HourInMs]
    ELSE ipCounts[ip]

\* UnderLimit letting the count reach the limit before it refuses
UnderLimit_Inclusive(count, limit) == count <= limit

\* if (ipTracking.count < limit)
UnderLimit(count, limit) == count < limit

InitThrottle ==
    /\ AnalyzerIdle
    /\ LoggerIdle
    /\ HandlerIdle
    /\ CheckerIdle
    /\ ResolverIdle
    /\ ipCounts = [ip \in Ips |-> NoTracking]
    /\ now = 1
    /\ calls = <<>>

\* One call of checkAllowed: the function has no await, so it runs from its
\* first line to its return without any other code in between; the caller
\* that awaits its promise resumes later
CheckAllowedRuns(ip) ==
    LET limit == GetLimitForIp(ip)
        ipTracking == TrackingFor(ip)
        allowed == UnderLimit(ipTracking.count, limit)
    IN  /\ ipCounts' = [ipCounts EXCEPT ![ip] =
                           IF allowed
                           THEN [ipTracking EXCEPT !.count = ipTracking.count + 1]
                           ELSE ipTracking]
        /\ calls' = Append(calls, [ip |-> ip, limit |-> limit, allowed |-> allowed,
                                   resetTime |-> ipTracking.resetTime,
                                   resumed |-> FALSE])

\* checkAllowed called on a throttler of its own
CheckAllowed(ip) ==
    /\ Len(calls) < MaxCalls
    /\ CheckAllowedRuns(ip)
    /\ UNCHANGED <<now, nonThrottlerVars>>

\* The handler that awaited call i goes on with its result; the promises are
\* already resolved, so their awaiters resume in the order of the calls
CallerResumes(i) ==
    /\ i \in 1..Len(calls)
    /\ ~calls[i].resumed
    /\ \A j \in 1..(i - 1) : calls[j].resumed
    /\ calls' = [calls EXCEPT ![i].resumed = TRUE]
    /\ UNCHANGED <<ipCounts, now, nonThrottlerVars>>

\* resetAllCounts(); the record of calls starts over with the counts
ResetAllCounts ==
    /\ calls # <<>>
    /\ ipCounts' = [ip \in Ips |-> NoTracking]
    /\ calls' = <<>>
    /\ UNCHANGED <<now, nonThrottlerVars>>

\* Time passes
Tick ==
    /\ now < MaxNow
    /\ now' = now + 1
    /\ UNCHANGED <<ipCounts, calls, nonThrottlerVars>>

NextThrottle ==
    \/ \E ip \in Ips : CheckAllowed(ip)
    \/ \E i \in 1..MaxCalls : CallerResumes(i)
    \/ ResetAllCounts
    \/ Tick

SpecThrottle == InitThrottle /\ [][NextThrottle]_vars

\* The limit an IP is to have: its exact entry, else the a.b.c.* entry of a
\* four-part address, else the default
ConfiguredLimit(ip) ==
    LET ipParts == SplitBy(ip, Dot)
    IN  IF HasKey(Overrides, ip) THEN Get(Overrides, ip)
        ELSE IF Len(ipParts) = 4 /\ HasKey(Overrides, ClassCOf(ipParts))
             THEN Get(Overrides, ClassCOf(ipParts))
             ELSE DefaultLimit

\* The calls before call i made for the same IP in the same hourly window
EarlierInWindow(i) ==
    {j \in 1..(i - 1) : calls[j].ip = calls[i].ip /\ calls[j].resetTime = calls[i].resetTime}

\* The calls of one IP and one window that returned true
AllowedInWindow(ip, resetTime) ==
    {j \in 1..Len(calls) :
        calls[j].ip = ip /\ calls[j].resetTime = resetTime /\ calls[j].allowed}

\* C13: for one IP within one hourly window, the first limit calls of
\* checkAllowed return true and the next call returns false, limit being
\* the override value of an IP that has an override and the default limit
\* otherwise, whatever calls are made for other IPs in between.
C13_FirstLimitCallsAllowed ==
    \A i \in 1..Len(calls) :
        /\ Cardinality(EarlierInWindow(i)) < ConfiguredLimit(calls[i].ip) => calls[i].allowed
        /\ Cardinality(EarlierInWindow(i)) = ConfiguredLimit(calls[i].ip) => ~calls[i].allowed

C15_OverrideNeverIgnored ==
    \A i \in 1..Len(calls) : calls[i].limit = ConfiguredLimit(calls[i].ip)

-----------------------------------------------------------------------------
(* DnsResolver.queryWithTimeout (specification SpecQuery)                  *)

GoogleIp == <<"8",".","8",".","8",".","8">>
CloudflareIp == <<"1",".","1",".","1",".","1">>
OpenDnsIp == <<"2","0","8",".","6","7",".","2","2","2",".","2","2","2">>
NsCom == <<"n","s","1",".","a",".","c","o","m">>
NsIp4 == <<"1","9","2",".","0",".","2",".","5","3">>
NsIp6 == <<"2","0","0","1",":","d","b","8",":",":","5","3">>
DotCom == <<".","c","o","m">>
DotNet == <<".","n","e","t">>
DotOrg == <<".","o","r","g">>
DmarcChunk1 == <<"v","=","D","M","A","R","C","1",";">>
DmarcChunk2 == <<" ","p","=","r","e","j","e","c","t">>

\* queryWithTimeout called without its third argument
NoProvider == <<>>

\* provider.includes('.com') || provider.includes('.net') || provider.includes('.org')
IsHostname(provider) ==
    Includes(provider, DotCom) \/ Includes(provider, DotNet) \/ Includes(provider, DotOrg)

Digits == {"0", "1", "2", "3", "4", "5", "6", "7", "8", "9"}

HexDigits == Digits \cup {"a", "b", "c", "d", "e", "f", "A", "B", "C", "D", "E", "F"}

\* What resolver.setServers accepts: the text of an IPv4 or IPv6 address, nothing else
IsIpAddress(server) ==
    /\ Len(server) > 0
    /\ \/ \A i \in 1..Len(server) : server[i] \in Digits \cup {"."}
       \/ /\ \E i \in 1..Len(server) : server[i] = ":"
          /\ \A i \in 1..Len(server) : server[i] \in HexDigits \cup {":", "."}

\* The promise of the call is rejected
Rejected(c, cause, message) ==
    [c EXCEPT !.state = "rejected", !.timer = FALSE, !.cause = cause, !.error = message]

\* The timer is created and the query is sent to `server`
Racing(c, server) == [c EXCEPT !.state = "racing", !.servers = server, !.timer = TRUE]

\* queryWithTimeout from its first line to its first await
QueryStart(provider) ==
    LET c == [NoCall EXCEPT !.provider = provider]
    IN  IF provider # NoProvider
        THEN IF IsHostname(provider)
             THEN [c EXCEPT !.state = "resolve4", !.resolvedBy = GoogleIp]
             ELSE IF IsIpAddress(provider)
                  THEN Racing(c, provider)
                  ELSE Rejected(c, "invalidAddress", "ERR_INVALID_IP_ADDRESS")
        ELSE Racing(c, <<>>)

\* throw new Error(`Could not resolve IP for nameserver ${provider}`)
CouldNotResolve(c) == Rejected(c, "unresolvedNameserver", "Could not resolve IP for nameserver")

\* resolveNameserverIp after resolver.resolve4 settled, and queryWithTimeout after it
AfterResolve4(c, outcome) ==
    CASE outcome = "addresses" -> Racing(c, NsIp4)
      [] outcome = "empty" -> [c EXCEPT !.state = "resolve6"]
      [] OTHER -> CouldNotResolve(c)

\* resolveNameserverIp after resolver.resolve6 settled, and queryWithTimeout after it
AfterResolve6(c, outcome) ==
    CASE outcome = "addresses" -> Racing(c, NsIp6)
      [] OTHER -> CouldNotResolve(c)

LookupOutcomes == {"addresses", "empty", "error"}

\* What the DNS query of a record type can answer with
RawAnswers(recordType) ==
    IF recordType = "CNAME"
    THEN {<<DKIM2>>}
    ELSE {<< <<DmarcChunk1, DmarcChunk2>>, <<DmarcNone>> >>}

\* resolveCname(...).then(r => r) / resolveTxt(...).then(r => r.map(item => item.join('')))
Converted(recordType, answer) ==
    IF recordType = "CNAME" THEN answer
    ELSE [i \in 1..Len(answer) |-> ConcatAll(answer[i])]

\* What ends the race of the query against the timer
RaceEvents(recordType) ==
    [kind : {"answer"}, answer : RawAnswers(recordType)] \cup
    [kind : {"notFound", "error", "timeout"}, answer : {<<>>}]

TimedOut == "DNS query timed out"

\* Promise.race settles, and the try / catch around it
AfterRace(c, recordType, event) ==
    CASE event.kind = "answer" ->
            [c EXCEPT !.state = "resolved", !.timer = FALSE, !.cause = "answer",
                      !.value = Converted(recordType, event.answer)]
      [] event.kind = "timeout" -> Rejected(c, "timeout", TimedOut)
      [] OTHER -> [c EXCEPT !.state = "resolved", !.timer = FALSE, !.cause = event.kind,
                            !.value = <<>>]

Resolve4Settles ==
    /\ call.state = "resolve4"
    /\ \E outcome \in LookupOutcomes : call' = AfterResolve4(call, outcome)
    /\ UNCHANGED <<query, result, provOutcome, authNsRecords, nsLookups, authLog, rpc,
                   nonResolverVars>>

Resolve6Settles ==
    /\ call.state = "resolve6"
    /\ \E outcome \in LookupOutcomes : call' = AfterResolve6(call, outcome)
    /\ UNCHANGED <<query, result, provOutcome, authNsRecords, nsLookups, authLog, rpc,
                   nonResolverVars>>

RaceSettles ==
    /\ call.state = "racing"
    /\ \E event \in RaceEvents(query.recordType) :
          call' = AfterRace(call, query.recordType, event)
    /\ UNCHANGED <<query, result, provOutcome, authNsRecords, nsLookups, authLog, rpc,
                   nonResolverVars>>

RecordTypes == {"CNAME", "TXT"}

Localhost == <<"l","o","c","a","l","h","o","s","t">>

ResolverDomains == {DomA, DomWwwA, Localhost}

ProviderArguments == {NoProvider, GoogleIp, NsCom, NsHost}

\* The arguments of a direct call resolver.queryWithTimeout(domain, recordType, provider)
InitQuery ==
    /\ AnalyzerIdle
    /\ LoggerIdle
    /\ HandlerIdle
    /\ CheckerIdle
    /\ ThrottlerIdle
    /\ \E d \in ResolverDomains, t \in RecordTypes, p \in ProviderArguments :
          query = [domain |-> d, recordType |-> t, prefix |-> <<>>, provider |-> p]
    /\ call = NoCall
    /\ result = <<>>
    /\ provOutcome = <<>>
    /\ authNsRecords = <<>>
    /\ nsLookups = <<>>
    /\ authLog = <<>>
    /\ rpc = "input"

\* The call runs up to its first await
CallQueryWithTimeout ==
    /\ rpc = "input"
    /\ call' = QueryStart(query.provider)
    /\ rpc' = "queryWithTimeout"
    /\ UNCHANGED <<query, result, provOutcome, authNsRecords, nsLookups, authLog,
                   nonResolverVars>>

NextQuery == CallQueryWithTimeout \/ Resolve4Settles \/ Resolve6Settles \/ RaceSettles

SpecQuery == InitQuery /\ [][NextQuery]_vars

CallPending == call.state \in {"resolve4", "resolve6", "racing"}

\* C19: every queryWithTimeout call, with no provider, an IP address or a
\* nameserver hostname, waits for a DNS operation only while its timeout
\* timer runs; it rejects only with the timeout error, when the timer fires
\* before an answer, resolves with an empty list when the query fails, and
\* resolves with the answer otherwise.
C19_SettlesByTimer ==
    /\ CallPending => call.timer
    /\ call.state = "rejected" => (call.cause = "timeout" /\ call.error = TimedOut)
    /\ call.state = "resolved" =>
          /\ call.cause \in {"answer", "notFound", "error"}
          /\ call.cause # "answer" => call.value = <<>>
          /\ call.cause = "answer" => Len(call.value) > 0

-----------------------------------------------------------------------------
(* DnsResolver.queryAllProviders (specification SpecResolver)              *)

K2Label == <<"k","2",".","_","d","o","m","a","i","n","k","e","y">>

\* Object.entries(this.providers)
FixedProviders == <<"google", "cloudflare", "openDNS">>

ProviderIp(p) == (<<GoogleIp, CloudflareIp, OpenDnsIp>>)[p]

\* const fullDomain = prefix ? `${prefix}.${domain}` : domain
FullDomain(q) == IF q.prefix # <<>> THEN q.prefix \o Dot \o q.domain ELSE q.domain

\* parts.slice(1).join('.')
RECURSIVE JoinWith(_, _)
JoinWith(parts, sep) ==
    IF Len(parts) = 0 THEN <<>>
    ELSE IF Len(parts) = 1 THEN parts[1]
    ELSE parts[1] \o sep \o JoinWith(Tail(parts), sep)

ParentDomain(name) == JoinWith(Tail(SplitBy(name, Dot)), Dot)

\* The name getAuthoritativeNameservers is looking up: the domain, then the
\* parent of the name whose lookup failed
CurrentNsName ==
    IF nsLookups = <<>> THEN query.domain
    ELSE ParentDomain(nsLookups[Len(nsLookups)].name)

\* const result: any = {}: the four properties, none of them set yet (the
\* order in which they get set is not kept)
EmptyResult == [p \in 1..Len(Providers) |-> [provider |-> Providers[p], map |-> <<>>]]

\* result[provider] = map
PutProvider(res, provider, map) ==
    [i \in 1..Len(res) |->
        IF res[i].provider = provider THEN [provider |-> provider, map |-> map]
        ELSE res[i]]

\* { [fullDomain]: [], authoritativeServers: authNsRecords || [] }
AuthoritativeEmpty(full, servers) ==
    <<ArrayEntry(full, <<>>), ArrayEntry(KeyAuthoritativeServers, servers)>>

\* { [fullDomain]: records, authoritativeServers: authNsRecords, authoritativeServer: authServer }
AuthoritativeAnswer(full, list, servers, authServer) ==
    <<ArrayEntry(full, list), ArrayEntry(KeyAuthoritativeServers, servers),
      [key |-> KeyAuthoritativeServer, isArray |-> FALSE, val |-> authServer]>>

\* What a successful NS lookup can return
NsAnswers == {<<>>, <<NsCom>>, <<NsHost>>, <<NsCom, NsHost>>, <<NsHost, NsCom>>}

\* The calls made: a DKIM key under a prefix, a TXT lookup of the bare domain
QueryArguments ==
    {[domain |-> DomA, recordType |-> "CNAME", prefix |-> K2Label, provider |-> NoProvider],
     [domain |-> DomA, recordType |-> "TXT", prefix |-> <<>>, provider |-> NoProvider],
     [domain |-> DomWwwA, recordType |-> "CNAME", prefix |-> K2Label, provider |-> NoProvider],
     [domain |-> Localhost, recordType |-> "TXT", prefix |-> <<>>, provider |-> NoProvider]}

\* CatchSites without the try / catch inside the loop over the nameservers
CatchSites_LoopUnguarded == {"providerQuery", "nsLookup"}

\* The try / catch blocks of queryAllProviders and getAuthoritativeNameservers:
\* an exception thrown at another place rejects the promise of the function
CatchSites == {"providerQuery", "authQuery", "nsLookup"}

\* HasParentToTry going on down to the top-level domain
HasParentToTry_DownToTld(name) == Len(SplitBy(name, Dot)) > 1

\* if (parts.length > 2)
HasParentToTry(name) == Len(SplitBy(name, Dot)) > 2

\* LoopStops at the first server whose query resolved, with or without records
LoopStops_AnyResult(c) == c.state = "resolved"

\* if (records && records.length > 0)
LoopStops(c) == c.state = "resolved" /\ Len(c.value) > 0

\* The arguments of a call resolver.queryAllProviders(domain, recordType, prefix)
InitResolver ==
    /\ AnalyzerIdle
    /\ LoggerIdle
    /\ HandlerIdle
    /\ CheckerIdle
    /\ ThrottlerIdle
    /\ query \in QueryArguments
    /\ call = NoCall
    /\ result = <<>>
    /\ provOutcome = <<>>
    /\ authNsRecords = <<>>
    /\ nsLookups = <<>>
    /\ authLog = <<>>
    /\ rpc = "input"

\* queryAllProviders up to its first await: the three provider queries are
\* started and the first NS lookup is sent
CallQueryAllProviders ==
    /\ rpc = "input"
    /\ provOutcome' = [p \in 1..Len(FixedProviders) |-> [kind |-> "pending", answer |-> <<>>]]
    /\ result' = EmptyResult
    /\ rpc' = "ns"
    /\ UNCHANGED <<query, call, authNsRecords, nsLookups, authLog, nonResolverVars>>

\* The query of one fixed provider settles and its callback stores the list
ProviderQuerySettles(p) ==
    /\ rpc \in {"ns", "auth", "join"}
    /\ provOutcome[p].kind = "pending"
    /\ \E event \in RaceEvents(query.recordType) :
          LET c == AfterRace(QueryStart(ProviderIp(p)), query.recordType, event)
              list == IF c.state = "resolved" THEN c.value ELSE <<>>
          IN  /\ provOutcome' = [provOutcome EXCEPT ![p] = event]
              /\ IF c.state = "resolved" \/ "providerQuery" \in CatchSites
                 THEN /\ result' = PutProvider(result, FixedProviders[p],
                                                <<ArrayEntry(FullDomain(query), list)>>)
                      /\ rpc' = rpc
                 ELSE /\ result' = result
                      /\ rpc' = "rejected"
    /\ UNCHANGED <<query, call, authNsRecords, nsLookups, authLog, nonResolverVars>>

\* queryAllProviders from the return of getAuthoritativeNameservers to its next await
AfterNameservers(servers) ==
    /\ authNsRecords' = servers
    /\ result' = PutProvider(result, "authoritative",
                              AuthoritativeEmpty(FullDomain(query), servers))
    /\ IF Len(servers) > 0
       THEN call' = QueryStart(servers[1]) /\ rpc' = "auth"
       ELSE call' = call /\ rpc' = "join"

\* resolver.resolveNs settles in getAuthoritativeNameservers
NsLookupSettles ==
    /\ rpc = "ns"
    /\ \/ \E servers \in NsAnswers :
             /\ nsLookups' = Append(nsLookups, [name |-> CurrentNsName, found |-> TRUE,
                                                servers |-> servers])
             /\ AfterNameservers(servers)
       \/ /\ nsLookups' = Append(nsLookups, [name |-> CurrentNsName, found |-> FALSE,
                                              servers |-> <<>>])
          /\ IF "nsLookup" \notin CatchSites
             THEN rpc' = "rejected" /\ UNCHANGED <<call, result, authNsRecords>>
             ELSE IF HasParentToTry(CurrentNsName)
                  THEN UNCHANGED <<call, result, authNsRecords, rpc>>
                  ELSE AfterNameservers(<<>>)
    /\ UNCHANGED <<query, provOutcome, authLog, nonResolverVars>>

\* The queryWithTimeout call for an authoritative server has settled: the
\* loop body ends and the loop goes on or stops
AuthQueryReturns ==
    /\ rpc = "auth"
    /\ call.state \in {"resolved", "rejected"}
    /\ authLog' = Append(authLog, call)
    /\ IF call.state = "rejected" /\ "authQuery" \notin CatchSites
       THEN rpc' = "rejected" /\ UNCHANGED <<call, result>>
       ELSE IF LoopStops(call)
       THEN /\ result' = PutProvider(result, "authoritative",
                             AuthoritativeAnswer(FullDomain(query), call.value,
                                                 authNsRecords, call.provider))
            /\ rpc' = "join"
            /\ call' = call
       ELSE /\ result' = result
            /\ IF Len(authLog) + 1 < Len(authNsRecords)
               THEN call' = QueryStart(authNsRecords[Len(authLog) + 2]) /\ rpc' = rpc
               ELSE call' = call /\ rpc' = "join"
    /\ UNCHANGED <<query, provOutcome, authNsRecords, nsLookups, nonResolverVars>>

\* await Promise.all(providerQueries); return result
AllProvidersDone ==
    /\ rpc = "join"
    /\ \A p \in 1..Len(FixedProviders) : provOutcome[p].kind # "pending"
    /\ rpc' = "resolved"
    /\ UNCHANGED <<query, call, result, provOutcome, authNsRecords, nsLookups, authLog,
                   nonResolverVars>>

NextResolver ==
    \/ CallQueryAllProviders
    \/ \E p \in 1..Len(FixedProviders) : ProviderQuerySettles(p)
    \/ NsLookupSettles
    \/ Resolve4Settles
    \/ Resolve6Settles
    \/ RaceSettles
    \/ AuthQueryReturns
    \/ AllProvidersDone

SpecResolver == InitResolver /\ [][NextResolver]_vars

\* Every DNS operation settles and every timer fires
SpecResolverFair == SpecResolver /\ WF_vars(NextResolver)

-----------------------------------------------------------------------------
(* Properties of the resolver                                              *)

\* The name the bundle is keyed by
QueryName ==
    IF query.prefix = <<>> THEN query.domain ELSE query.prefix \o <<".">> \o query.domain

\* A queryWithTimeout call that returned a non-empty list
Answered(c) == c.state = "resolved" /\ Len(c.value) > 0

\* The bundle queryAllProviders resolved with
BundleAsPromised ==
    /\ Len(result) = 4
    /\ \A i \in 1..4 :
          /\ result[i].provider = Providers[i]
          /\ HasKey(result[i].map, QueryName)
          /\ Entry(result[i].map, QueryName).isArray
    /\ \A p \in 1..3 :
          Get(result[p].map, QueryName) =
              IF provOutcome[p].kind = "answer"
              THEN Converted(query.recordType, provOutcome[p].answer)
              ELSE <<>>
    /\ (\A i \in 1..Len(authLog) : ~Answered(authLog[i])) =>
          Get(result[4].map, QueryName) = <<>>

\* C16: queryAllProviders never rejects and eventually resolves, whatever
\* the outcome of each provider's query, of the nameserver lookups and of
\* the resolution of the nameserver names; the bundle has the providers
\* google, cloudflare, openDNS and authoritative, each with a list under
\* the full query name, empty for a provider that failed, and a provider's
\* list depends on its own outcome only.
C16_AlwaysResolves ==
    /\ [](rpc # "rejected")
    /\ <>(rpc = "resolved")
    /\ [](rpc = "resolved" => BundleAsPromised)

\* One provider timed out, another was not found, the third answered, no
\* NS lookup succeeded
C16_Witness ==
    /\ rpc = "resolved"
    /\ provOutcome[1].kind = "timeout"
    /\ provOutcome[2].kind = "notFound"
    /\ provOutcome[3].kind = "answer"
    /\ Len(Get(result[3].map, QueryName)) > 0
    /\ Get(result[1].map, QueryName) = <<>>
    /\ Len(nsLookups) = 2
    /\ \A i \in 1..Len(nsLookups) : ~nsLookups[i].found

\* The list the NS lookups discovered
DiscoveredServers ==
    IF nsLookups # <<>> /\ nsLookups[Len(nsLookups)].found
    THEN nsLookups[Len(nsLookups)].servers
    ELSE <<>>

\* C17: the authoritative nameservers are queried one at a time in list
\* order and none is queried after the first that returned a non-empty
\* list; the authoritative result is that list with authoritativeServer
\* set to the server that gave it, or an empty list without
\* authoritativeServer when none answered; authoritativeServers is the
\* full discovered list in both cases.
C17_FirstAnswerWins ==
    /\ rpc \in {"auth", "join", "resolved"} =>
          /\ Len(authLog) <= Len(DiscoveredServers)
          /\ \A i \in 1..Len(authLog) : authLog[i].provider = DiscoveredServers[i]
          /\ \A i \in 1..(Len(authLog) - 1) : ~Answered(authLog[i])
          /\ HasKey(result[4].map, KeyAuthoritativeServers)
          /\ Get(result[4].map, KeyAuthoritativeServers) = DiscoveredServers
    /\ rpc = "auth" =>
          /\ \A i \in 1..Len(authLog) : ~Answered(authLog[i])
          /\ call.provider = DiscoveredServers[Len(authLog) + 1]
    /\ rpc \in {"join", "resolved"} =>
          IF authLog # <<>> /\ Answered(authLog[Len(authLog)])
          THEN /\ Get(result[4].map, QueryName) = authLog[Len(authLog)].value
               /\ HasKey(result[4].map, KeyAuthoritativeServer)
               /\ Get(result[4].map, KeyAuthoritativeServer) = authLog[Len(authLog)].provider
          ELSE /\ Len(authLog) = Len(DiscoveredServers)
               /\ Get(result[4].map, QueryName) = <<>>
               /\ ~HasKey(result[4].map, KeyAuthoritativeServer)

\* Two servers were discovered, the first answered, the second was never asked
C17_Witness ==
    /\ rpc = "resolved"
    /\ Len(DiscoveredServers) = 2
    /\ Len(authLog) = 1
    /\ Answered(authLog[1])
    /\ Get(result[4].map, KeyAuthoritativeServer) = DiscoveredServers[1]

NumberOfLabels(name) == Cardinality({i \in 1..Len(name) : name[i] = "."}) + 1

WithoutLeftmostLabel(name) == SubSeq(name, IndexOf(name, <<".">>) + 1, Len(name))

\* The lookups are made on the domain and then on each parent in turn, stop
\* at the first that succeeds, and their outcome is what is returned
LookupsClimb ==
    /\ \A i \in 1..Len(nsLookups) :
          /\ i = 1 => nsLookups[i].name = query.domain
          /\ i > 1 => nsLookups[i].name = WithoutLeftmostLabel(nsLookups[i - 1].name)
          /\ i < Len(nsLookups) => ~nsLookups[i].found
    /\ Len(nsLookups) <= NumberOfLabels(query.domain)
    /\ rpc = "ns" => (nsLookups = <<>> \/ ~nsLookups[Len(nsLookups)].found)
    /\ rpc \in {"auth", "join", "resolved"} =>
          /\ nsLookups # <<>>
          /\ authNsRecords = DiscoveredServers
          /\ ~nsLookups[Len(nsLookups)].found =>
                NumberOfLabels(nsLookups[Len(nsLookups)].name) <= 2

\* C18 as stated: getAuthoritativeNameservers returns the NS list of the
\* first name, among the domain and its successive parents, whose lookup
\* succeeds, an empty list when all fail down to the two-label name, and
\* never looks up a name with fewer than two labels.
C18_Original ==
    /\ LookupsClimb
    /\ \A i \in 1..Len(nsLookups) : NumberOfLabels(nsLookups[i].name) >= 2

\* C18, amended: the same, except that the name with fewer than two labels
\* that is never looked up is a parent; the domain itself is looked up
\* whatever its number of labels.
C18_ParentsDownToTwoLabels ==
    /\ LookupsClimb
    /\ \A i \in 2..Len(nsLookups) : NumberOfLabels(nsLookups[i].name) >= 2

\* The lookup failed for the three-label domain and succeeded for its parent
C18_Witness ==
    /\ rpc \in {"auth", "join", "resolved"}
    /\ Len(nsLookups) = 2
    /\ NumberOfLabels(nsLookups[1].name) = 3
    /\ nsLookups[2].found
    /\ Len(authNsRecords) > 0

\* The authoritative queryWithTimeout calls made so far, the one in progress included
AuthCalls ==
    {authLog[i] : i \in 1..Len(authLog)} \cup (IF rpc = "auth" THEN {call} ELSE {})

\* C20: every authoritative nameserver given as a hostname, under any
\* top-level domain, is resolved to an IP address through the trusted
\* resolver 8.8.8.8 before the record query is sent to it; when that
\* resolution fails the server is skipped, the next one is tried, and
\* queryAllProviders does not fail.
C20_HostnamesResolvedFirst ==
    /\ \A c \in AuthCalls : ~IsIpAddress(c.provider) =>
          /\ c.resolvedBy = GoogleIp
          /\ c.cause \in {"answer", "notFound", "error", "timeout"} => IsIpAddress(c.servers)
          /\ c.state = "racing" => IsIpAddress(c.servers)
    /\ \A i \in 1..Len(authLog) :
          (authLog[i].cause = "unresolvedNameserver" /\ i < Len(authNsRecords)) =>
              \/ Len(authLog) > i
              \/ rpc = "auth" /\ call.provider = authNsRecords[i + 1]
    /\ rpc # "rejected"

-----------------------------------------------------------------------------
(* checkCommonErrors and the values of a www-located record                *)

\* The list holds one of the three DKIM CNAME targets
HoldsDkimTarget(list) == \E i \in 1..Len(list) : list[i] \in {DKIM1, DKIM2, DKIM3}

\* The record names of the input map located under a www label
WwwLocatedNames == {k \in {records[i].key : i \in 1..Len(records)} : Includes(k, DomainKeyWwwDot)}

WrongSubdomainErrors == SelectSeq(dkimErrors.errors, LAMBDA e : e.type = "wrongSubdomain")

\* C26: checkCommonErrors emits a wrongSubdomain error for a record name only
\* when that record's list holds dkim.mcsv.net, dkim2.mcsv.net or
\* dkim3.mcsv.net; a www-located record with an empty list or only other
\* values gets no wrongSubdomain error, and the result is invalid only when
\* some error was reported.
C26_WrongSubdomainNeedsDkimTarget ==
    pc = "checkCommonErrors" =>
        /\ \A i \in 1..Len(WrongSubdomainErrors) :
              /\ HasKey(records, WrongSubdomainErrors[i].actual)
              /\ HoldsDkimTarget(Get(records, WrongSubdomainErrors[i].actual))
        /\ \A k \in WwwLocatedNames :
              ~HoldsDkimTarget(Get(records, k)) =>
                  \A i \in 1..Len(WrongSubdomainErrors) : WrongSubdomainErrors[i].actual # k
        /\ dkimErrors.isValid = (dkimErrors.errors = <<>>)

\* A www-located record holding only another target or an empty list, alone
\* under www: checkCommonErrors returns valid without errors
C26_Witness ==
    /\ pc = "checkCommonErrors"
    /\ HasKey(records, NameWwwK2)
    /\ Get(records, NameWwwK2) \in {<<>>, <<OtherTarget>>}
    /\ ~HasKey(records, NameWwwK3)
    /\ dkimErrors = [isValid |-> TRUE, errors |-> <<>>]

-----------------------------------------------------------------------------
(* checkConsistency and the order of the values in a list                  *)

\* The two lists hold the same values the same number of times
SameValuesAnyOrder(a, b) ==
    /\ Len(a) = Len(b)
    /\ \A v \in {a[i] : i \in 1..Len(a)} \cup {b[i] : i \in 1..Len(b)} :
          Cardinality({i \in 1..Len(a) : a[i] = v}) = Cardinality({i \in 1..Len(b) : b[i] = v})

\* Two providers' lists for a name count as the same answer
Agreeing(name, a, b) == IF IsDmarcName(name) THEN SameValuesAnyOrder(a, b) ELSE a = b

\* C27: for a record name that contains "_dmarc", listing the values of any
\* providers' lists in another order leaves the result of checkConsistency
\* unchanged, and providers that return the same DMARC values in different
\* orders count as agreeing; for the other names two lists agree only when
\* they are equal as returned, order included.
C27_DmarcOrderIgnored ==
    pc = "consistency" =>
        /\ \A S \in SUBSET (1..Len(results)) :
              CheckConsistency(ValuesReversed(results, S, IsDmarcName)) = consistencyResult
        /\ consistencyResult.consistent =
              \A name \in BundleRecordNames :
                  (\E p \in 1..Len(results) : Len(ListOf(p, name)) > 0) =>
                      \A p, q \in 1..Len(results) :
                          Agreeing(name, ListOf(p, name), ListOf(q, name))

\* One provider returns the two DMARC values in the other order than the
\* three others, everything else agrees: the bundle is consistent
C27_Witness ==
    /\ pc = "consistency"
    /\ \E p, q \in 1..Len(results) :
          /\ Len(ListOf(p, NameDmarc)) = 2
          /\ ListOf(q, NameDmarc) = Reverse(ListOf(p, NameDmarc))
          /\ ListOf(q, NameDmarc) # ListOf(p, NameDmarc)
    /\ \A p \in 1..Len(results) : ListOf(p, NameK2) = <<DKIM2, DKIM3>>
    /\ consistencyResult = [consistent |-> TRUE, hasSuccessfulResults |-> TRUE]

-----------------------------------------------------------------------------
(* The DMARC records of all providers taken together                       *)

\* The distinct values with v=DMARC1 that the providers hold, between them,
\* for _dmarc.<domain>
DistinctDmarcValues ==
    {v \in UNION {{ListOf(p, DmarcPrefix \o domain)[j] :
                      j \in 1..Len(ListOf(p, DmarcPrefix \o domain))} : p \in 1..Len(results)} :
        Includes(v, VDmarc1)}

-----------------------------------------------------------------------------
(* validateResults called twice on one bundle (specification SpecTwice)    *)

\* The bundles of the repeated call: the four providers answer alike
InitTwice ==
    /\ domain \in Domains
    /\ \E base \in AnswerSets :
          results = Bundle(domain, [p \in 1..Len(Providers) |-> base])
    /\ records = <<>>
    /\ dmarcRecords = <<>>
    /\ dkimResult = NoResult
    /\ dkimErrors = NoResult
    /\ dmarcResult = NoResult
    /\ consistencyResult = NoConsistency
    /\ summary = NoSummary
    /\ wwwAnswers = <<>>
    /\ returned = <<>>
    /\ NonAnalyzerIdle
    /\ pc = "start"

\* The caller calls validateResults(domain, results) again with the domain
\* and the bundle of the first call; the locals of the new call start afresh
CallAgain ==
    /\ UNCHANGED nonAnalyzerVars
    /\ pc = "done"
    /\ Len(returned) = 1
    /\ pc' = "start"
    /\ records' = <<>>
    /\ dmarcRecords' = <<>>
    /\ dkimResult' = NoResult
    /\ dkimErrors' = NoResult
    /\ dmarcResult' = NoResult
    /\ consistencyResult' = NoConsistency
    /\ summary' = NoSummary
    /\ wwwAnswers' = <<>>
    /\ UNCHANGED <<domain, results, returned>>

NextTwice == ValidateResults \/ WwwProbeReturn \/ CallAgain

SpecTwice == InitTwice /\ [][NextTwice]_vars

\* C23: two calls of validateResults with the same domain and the same
\* bundle resolve with equal summaries (same flags, same errors in the same
\* order), for every bundle, and no step of a call changes the bundle.
C23_SameInputSameSummary ==
    /\ [](Len(returned) = 2 => returned[1] = returned[2])
    /\ [][results' = results]_vars

-----------------------------------------------------------------------------
(* Logger (src/src/services/logger.ts; specification SpecLogger)           *)

\* At most this many log calls are made
MaxLogCalls == 3

\* if (this.memoryLogs.length > 100), with a buffer of two entries
MaxMemoryLogs == 2

\* The limits getEntries is called with
Limits == 0..(MaxLogCalls + 1)

\* A filesystem operation settles either way
FsOutcomes == {"ok", "fails"}

\* Array.prototype.unshift
Unshift(list, e) == <<e>> \o list

\* Array.prototype.pop
Pop(list) == SubSeq(list, 1, Len(list) - 1)

\* Array.prototype.slice(0, limit), for a limit that is not negative
SliceTo(list, limit) == SubSeq(list, 1, IF limit < Len(list) THEN limit ELSE Len(list))

\* KeepRecent dropping the newest entry of a full buffer
KeepRecent_DropsNewest(logs) == IF Len(logs) > MaxMemoryLogs THEN Tail(logs) ELSE logs

\* if (this.memoryLogs.length > 100) this.memoryLogs.pop()
KeepRecent(logs) == IF Len(logs) > MaxMemoryLogs THEN Pop(logs) ELSE logs

\* The log call that skips file logging, and the one that has called mkdir
CallSkipsFile == [at |-> "done", exists |-> FALSE, ops |-> 0, failed |-> FALSE]
CallAtMkdir == [at |-> "mkdir", exists |-> FALSE, ops |-> 1, failed |-> FALSE]

\* new Logger({logDir, enableFileLogging}); the log file may be there already
InitLogger ==
    /\ AnalyzerIdle
    /\ ThrottlerIdle
    /\ ResolverIdle
    /\ HandlerIdle
    /\ CheckerIdle
    /\ enableFileLogging \in BOOLEAN
    /\ memoryLogs = <<>>
    /\ logFile \in {NoFile, [exists |-> TRUE, lines |-> <<>>]}
    /\ logCalls = <<>>
    /\ entriesRead = NoRead

\* log(entry) up to its first await: the entry, which is the number of the
\* call, goes into the buffer; with file logging on, ensureLogDir has called
\* mkdir
Log ==
    /\ Len(logCalls) < MaxLogCalls
    /\ memoryLogs' = KeepRecent(Unshift(memoryLogs, Len(logCalls) + 1))
    /\ logCalls' = Append(logCalls, IF enableFileLogging THEN CallAtMkdir ELSE CallSkipsFile)
    /\ entriesRead' = NoRead
    /\ UNCHANGED <<enableFileLogging, logFile, nonLoggerVars>>

\* mkdir settles: ensureLogDir rethrows a failure, which log catches and
\* reports; otherwise fileExists calls access
MkdirSettles(i) ==
    /\ i \in 1..Len(logCalls)
    /\ logCalls[i].at = "mkdir"
    /\ \E outcome \in FsOutcomes :
          logCalls' = [logCalls EXCEPT ![i] =
                          IF outcome = "ok"
                          THEN [@ EXCEPT !.at = "access", !.ops = @ + 1]
                          ELSE [@ EXCEPT !.at = "done", !.failed = TRUE]]
    /\ entriesRead' = NoRead
    /\ UNCHANGED <<enableFileLogging, memoryLogs, logFile, nonLoggerVars>>

\* access settles: fileExists answers true when it succeeded; log then calls
\* appendFile or writeFile
AccessSettles(i) ==
    /\ i \in 1..Len(logCalls)
    /\ logCalls[i].at = "access"
    /\ \E outcome \in IF logFile.exists THEN FsOutcomes ELSE {"fails"} :
          logCalls' = [logCalls EXCEPT ![i] =
                          [@ EXCEPT !.at = "write", !.ops = @ + 1,
                                    !.exists = (outcome = "ok"),
                                    !.failed = logFile.exists /\ outcome = "fails"]]
    /\ entriesRead' = NoRead
    /\ UNCHANGED <<enableFileLogging, memoryLogs, logFile, nonLoggerVars>>

\* The file after appendFile(logPath, line) and after writeFile(logPath, line)
Appended(file, line) == [exists |-> TRUE, lines |-> Append(file.lines, line)]
Written(file, line) == [exists |-> TRUE, lines |-> <<line>>]

\* appendFile or writeFile settles; log catches and reports a failure
WriteSettles(i) ==
    /\ i \in 1..Len(logCalls)
    /\ logCalls[i].at = "write"
    /\ \E outcome \in FsOutcomes :
          IF outcome = "ok"
          THEN /\ logFile' = IF logCalls[i].exists THEN Appended(logFile, i) ELSE Written(logFile, i)
               /\ logCalls' = [logCalls EXCEPT ![i].at = "done"]
          ELSE /\ logFile' = logFile
               /\ logCalls' = [logCalls EXCEPT ![i].at = "done", ![i].failed = TRUE]
    /\ entriesRead' = NoRead
    /\ UNCHANGED <<enableFileLogging, memoryLogs, nonLoggerVars>>

\* The entries of the file, newest first, at most limit of them
EntriesOfFile(file, limit) == SliceTo(Reverse(file.lines), limit)

\* getEntries(limit): the buffer when file logging is off, when the file is
\* not there or when it cannot be read, and the lines of the file otherwise
GetEntries(limit) ==
    /\ \E outcome \in IF enableFileLogging /\ logFile.exists THEN FsOutcomes ELSE {"fails"} :
          entriesRead' = [limit |-> limit,
                          entries |-> IF outcome = "ok"
                                      THEN EntriesOfFile(logFile, limit)
                                      ELSE SliceTo(memoryLogs, limit)]
    /\ UNCHANGED <<enableFileLogging, memoryLogs, logFile, logCalls, nonLoggerVars>>

NextLogger ==
    \/ Log
    \/ \E i \in 1..MaxLogCalls : MkdirSettles(i)
    \/ \E i \in 1..MaxLogCalls : AccessSettles(i)
    \/ \E i \in 1..MaxLogCalls : WriteSettles(i)
    \/ \E limit \in Limits : GetEntries(limit)

SpecLogger == InitLogger /\ [][NextLogger]_vars

\* The numbers of the n most recent of the calls made so far, newest first
MostRecent(n) == [k \in 1..n |-> Len(logCalls) + 1 - k]

Smallest(S) == CHOOSE x \in S : \A y \in S : x <= y

\* C22: after any number n of log calls, with file logging on or off and
\* whether or not the file operations fail, the buffer holds the
\* min(n, MaxMemoryLogs) most recent entries, newest first; with file
\* logging off, getEntries(limit) resolves with the newest
\* min(limit, n, MaxMemoryLogs) of them and no log call has called the
\* filesystem.
C22_BufferHoldsMostRecent ==
    /\ memoryLogs = MostRecent(Smallest({Len(logCalls), MaxMemoryLogs}))
    /\ ~enableFileLogging =>
          /\ \A i \in 1..Len(logCalls) : logCalls[i].ops = 0 /\ logCalls[i].at = "done"
          /\ logFile \in {NoFile, [exists |-> TRUE, lines |-> <<>>]}
          /\ entriesRead # NoRead =>
                entriesRead.entries =
                    MostRecent(Smallest({entriesRead.limit, Len(logCalls), MaxMemoryLogs}))

\* File logging is off, more calls were made than the buffer holds, and
\* getEntries was asked for fewer entries than the buffer holds
C22_Witness ==
    /\ ~enableFileLogging
    /\ Len(logCalls) > MaxMemoryLogs
    /\ entriesRead.limit = 1
    /\ entriesRead.entries = <<Len(logCalls)>>
    /\ Len(memoryLogs) = MaxMemoryLogs

\* Every log call made has completed
AllLogged == \A i \in 1..Len(logCalls) : logCalls[i].at = "done"

\* C30: with file logging on and no filesystem operation failing, once
\* every log call has completed the file holds one line for each call, and
\* a call that found the file missing is the only one to have written it
\* with writeFile.
C30_OneLinePerCall ==
    (/\ enableFileLogging
     /\ AllLogged
     /\ \A i \in 1..Len(logCalls) : ~logCalls[i].failed) =>
        /\ Len(logFile.lines) = Len(logCalls)
        /\ \A i \in 1..Len(logCalls) :
              Cardinality({k \in 1..Len(logFile.lines) : logFile.lines[k] = i}) = 1

-----------------------------------------------------------------------------
(* DomainChecker and the page that mounts it                               *)
(* (src/src/components/DomainChecker.tsx, src/src/pages/index.tsx,         *)
(* src/src/utils/domain.ts; specification SpecChecker)                     *)

\* At most this many checks are started
MaxChecks == 2

Space == " "
Slash == <<"/">>
SchemeHttp == <<"h","t","t","p",":","/","/">>
SchemeHttps == <<"h","t","t","p","s",":","/","/">>
AuthorityEnds == {"/", "?", "#"}

\* What the user types into the input field
TextUrl == <<"h","t","t","p","s",":","/","/","a",".","i","o","/","p","?","q","=","1","#","h">>
TextUrlWww == <<"h","t","t","p",":","/","/","w","w","w",".","a",".","i","o","/","p">>
TextPath == <<"a",".","i","o","/","p">>
TextWwwUpper == <<"W","W","W",".","a",".","i","o">>
TextSpacedWww == <<" ","w","w","w",".","a",".","i","o"," ">>
TextSpaces == <<" "," ">>

Texts == {<<>>, TextSpaces, DomA, DomWwwA, TextWwwUpper, TextSpacedWww, TextUrl, TextUrlWww,
          TextPath}

\* String.prototype.trim, for strings whose white space is the space character
RECURSIVE Trim(_)
Trim(s) ==
    IF s = <<>> THEN s
    ELSE IF Head(s) = Space THEN Trim(Tail(s))
    ELSE IF s[Len(s)] = Space THEN Trim(SubSeq(s, 1, Len(s) - 1))
    ELSE s

\* input.match(/^https?:\/\//i)
HasScheme(input) ==
    StartsWith(FoldCase(input), SchemeHttp) \/ StartsWith(FoldCase(input), SchemeHttps)

\* The text between the "//" of the scheme and the path, query or fragment
Authority(input) ==
    LET rest == Substring(input, IndexOf(input, Slash \o Slash) + 1)
        ends == {i \in 1..Len(rest) : rest[i] \in AuthorityEnds}
    IN  IF ends = {} THEN rest
        ELSE SubSeq(rest, 1, (CHOOSE i \in ends : \A j \in ends : i <= j) - 1)

\* extractDomain; new URL(input).hostname is the authority in lower case for
\* a URL without user info and port, and new URL throws when it is empty
ExtractDomain(text) ==
    LET input == Trim(text)
        beforeSlash == IF Includes(input, Slash) THEN SplitFirst(input, Slash) ELSE input
    IN  IF input = <<>> THEN <<>>
        ELSE IF HasScheme(input)
             THEN IF Authority(input) # <<>> THEN FoldCase(Authority(input)) ELSE beforeSlash
             ELSE beforeSlash

NoEvent == [kind |-> "none", submitted |-> <<>>, checksBefore |-> 0]

\* <DomainChecker onCheck={handleCheckDomain} isLoading={isLoading} /> mounted
\* by a page without results
InitChecker ==
    /\ AnalyzerIdle
    /\ ThrottlerIdle
    /\ ResolverIdle
    /\ LoggerIdle
    /\ HandlerIdle
    /\ inputValue = <<>>
    /\ showWwwPrompt = FALSE
    /\ rootDomain = <<>>
    /\ isChecking = FALSE
    /\ isLoading = FALSE
    /\ onCheckCalls = <<>>
    /\ lastEvent = NoEvent

\* onChange={(e) => setDomain(e.target.value)}; the input is disabled while
\* isLoading
Type(text) ==
    /\ ~isLoading
    /\ text # inputValue
    /\ inputValue' = text
    /\ lastEvent' = [lastEvent EXCEPT !.kind = "type"]
    /\ UNCHANGED <<showWwwPrompt, rootDomain, isChecking, isLoading, onCheckCalls,
                   nonCheckerVars>>

\* The check handleCheckDomain starts when onCheck(arg) is called: a page
\* that shows nothing yet sets isLoading in the same turn, a page with
\* results or an error first waits for its fade-out
Started(arg, stage) == [arg |-> arg, stage |-> stage]

StartStages == IF onCheckCalls = <<>> THEN {"loading"} ELSE {"loading", "fading"}

\* onCheck(arg), called from a handler of DomainChecker
OnCheck(arg) ==
    /\ Len(onCheckCalls) < MaxChecks
    /\ \E stage \in StartStages :
          /\ onCheckCalls' = Append(onCheckCalls, Started(arg, stage))
          /\ isLoading' = IF stage = "loading" THEN TRUE ELSE isLoading

\* handleSubmit
HandleSubmit ==
    /\ ~isLoading
    /\ lastEvent' = IF Trim(inputValue) = <<>> THEN lastEvent
                     ELSE [kind |-> "submit", submitted |-> inputValue,
                           checksBefore |-> Len(onCheckCalls)]
    /\ LET trimmedDomain == Trim(inputValue)
       IN  IF trimmedDomain = <<>>
           THEN UNCHANGED <<rootDomain, showWwwPrompt, isChecking, isLoading, onCheckCalls>>
           ELSE IF StartsWith(FoldCase(trimmedDomain), WwwDot)
           THEN /\ rootDomain' = Substring(trimmedDomain, 4)
                /\ showWwwPrompt' = TRUE
                /\ UNCHANGED <<isChecking, isLoading, onCheckCalls>>
           ELSE /\ isChecking' = TRUE
                /\ OnCheck(trimmedDomain)
                /\ UNCHANGED <<rootDomain, showWwwPrompt>>
    /\ UNCHANGED <<inputValue, nonCheckerVars>>

\* handleUseRootDomain, the onClick of the first prompt button
HandleUseRootDomain ==
    /\ showWwwPrompt
    /\ lastEvent' = [lastEvent EXCEPT !.kind = "useRoot", !.checksBefore = Len(onCheckCalls)]
    /\ inputValue' = rootDomain
    /\ showWwwPrompt' = FALSE
    /\ isChecking' = TRUE
    /\ OnCheck(rootDomain)
    /\ UNCHANGED <<rootDomain, nonCheckerVars>>

\* handleKeepWww, the onClick of the second prompt button
HandleKeepWww ==
    /\ showWwwPrompt
    /\ lastEvent' = [lastEvent EXCEPT !.kind = "keep", !.checksBefore = Len(onCheckCalls)]
    /\ showWwwPrompt' = FALSE
    /\ isChecking' = TRUE
    /\ OnCheck(Trim(inputValue))
    /\ UNCHANGED <<inputValue, rootDomain, nonCheckerVars>>

\* The fade-out wait of a check is over: setIsLoading(true)
FadeEnds(i) ==
    /\ i \in 1..Len(onCheckCalls)
    /\ onCheckCalls[i].stage = "fading"
    /\ onCheckCalls' = [onCheckCalls EXCEPT ![i].stage = "loading"]
    /\ isLoading' = TRUE
    /\ UNCHANGED <<inputValue, showWwwPrompt, rootDomain, isChecking, lastEvent, nonCheckerVars>>

\* The fetch of a check has settled: finally { setIsLoading(false) }
FetchEnds(i) ==
    /\ i \in 1..Len(onCheckCalls)
    /\ onCheckCalls[i].stage = "loading"
    /\ onCheckCalls' = [onCheckCalls EXCEPT ![i].stage = "done"]
    /\ isLoading' = FALSE
    /\ UNCHANGED <<inputValue, showWwwPrompt, rootDomain, isChecking, lastEvent, nonCheckerVars>>

\* The effect: if (!isLoading && isChecking) setIsChecking(false)
EffectStopsChecking ==
    /\ ~isLoading /\ isChecking
    /\ isChecking' = FALSE
    /\ UNCHANGED <<inputValue, showWwwPrompt, rootDomain, isLoading, onCheckCalls, lastEvent,
                   nonCheckerVars>>

NextChecker ==
    \/ \E text \in Texts : Type(text)
    \/ HandleSubmit
    \/ HandleUseRootDomain
    \/ HandleKeepWww
    \/ \E i \in 1..MaxChecks : FadeEnds(i)
    \/ \E i \in 1..MaxChecks : FetchEnds(i)
    \/ EffectStopsChecking

SpecChecker == InitChecker /\ [][NextChecker]_vars

\* The text has a scheme, a path, a query or a fragment around its host
IsUrlText(text) == \E i \in 1..Len(text) : text[i] \in AuthorityEnds

\* The arguments of the onCheck calls made since the last user event began
ArgsSinceEvent ==
    [k \in 1..(Len(onCheckCalls) - lastEvent.checksBefore) |->
        onCheckCalls[lastEvent.checksBefore + k].arg]

\* C24: when the form is submitted with a URL in the field, onCheck is
\* called with the bare domain extractDomain gives for that text (at once
\* unless that domain starts with www.), the field then shows that bare
\* domain, and the URL text itself is never passed to onCheck.
C24_UrlSubmitsBareDomain ==
    (lastEvent.kind = "submit" /\ IsUrlText(lastEvent.submitted)) =>
        LET bare == ExtractDomain(lastEvent.submitted)
        IN  /\ inputValue = bare
            /\ \A k \in 1..Len(ArgsSinceEvent) : ArgsSinceEvent[k] = bare
            /\ ~StartsWith(FoldCase(bare), WwwDot) => ArgsSinceEvent = <<bare>>

\* The domain of the last submission, and whether it starts with www.
SubmittedDomain == Trim(lastEvent.submitted)
SubmittedWww == StartsWith(FoldCase(SubmittedDomain), WwwDot)

\* C25: a submitted domain that starts with www. (in any letter case) shows
\* the prompt and calls onCheck only when a prompt button is picked, once
\* per pick, with the domain minus "www." for "use root" and with the
\* domain as entered for "keep"; a submitted domain that does not start
\* with www. calls onCheck at once and the prompt is not shown.
C25_WwwPrompt ==
    /\ (lastEvent.kind = "submit" /\ SubmittedDomain # <<>> /\ SubmittedWww) =>
          showWwwPrompt /\ ArgsSinceEvent = <<>>
    /\ (lastEvent.kind = "submit" /\ SubmittedDomain # <<>> /\ ~SubmittedWww) =>
          ~showWwwPrompt /\ ArgsSinceEvent = <<SubmittedDomain>>
    /\ lastEvent.kind = "useRoot" =>
          SubmittedWww /\ ~showWwwPrompt /\ ArgsSinceEvent = <<Substring(SubmittedDomain, 4)>>
    /\ lastEvent.kind = "keep" =>
          SubmittedWww /\ ~showWwwPrompt /\ ArgsSinceEvent = <<SubmittedDomain>>
    /\ showWwwPrompt => SubmittedWww

-----------------------------------------------------------------------------
(* The /api/domain handler (src/src/pages/api/domain.ts, lines 1-164;      *)
(* specification SpecHandler)                                              *)

\* At most this many requests are received
MaxRequests == 2

Comma == <<",">>
IpUnknown == <<"0",".","0",".","0",".","0">>
ForwardedList == <<"1","9","2",".","1","6","8",".","1",".","2",",","8",".","8",".","8",".","8">>

Methods == {"GET", "POST"}

\* req.query.domain: absent, an empty string, a string, or an array
DomainParams ==
    {[kind |-> "absent", val |-> <<>>], [kind |-> "string", val |-> <<>>],
     [kind |-> "string", val |-> DomA], [kind |-> "array", val |-> <<DomA, DomWwwA>>]}

\* req.headers['x-forwarded-for']: absent, a string, or an array
ForwardedHeaders ==
    {[kind |-> "absent", val |-> <<>>], [kind |-> "string", val |-> ForwardedList],
     [kind |-> "array", val |-> <<IpExact, IpPlain>>]}

\* req.socket.remoteAddress
RemoteAddresses == {IpPlain, Undefined}

HandlerIps == {IpExact, IpPlain, IpUnknown}

\* The requests tried: one for each way of failing the method test and the
\* domain test, and for a GET request that passes them a header that is a
\* string or an array, and no header with and without a socket address
RequestInputs ==
    {i \in [method : Methods, domain : DomainParams, forwardedFor : ForwardedHeaders,
            remoteAddress : RemoteAddresses] :
        /\ i.forwardedFor.kind # "absent" => i.remoteAddress = IpPlain
        /\ (i.method # "GET" \/ i.domain.val # DomA) => i.forwardedFor.kind = "absent"
        /\ i.method # "GET" => i.domain.val = DomA}

\* An await of the handler settles either way
Outcomes == {"resolves", "throws"}

\* if (!domain || typeof domain !== 'string')
DomainRejected(d) == d.kind # "string" \/ d.val = <<>>

\* ClientIp taking the socket address whatever the header holds
ClientIp_SocketOnly(forwardedFor, remoteAddress) ==
    IF remoteAddress # Undefined /\ remoteAddress # <<>> THEN remoteAddress ELSE IpUnknown

\* typeof forwardedFor === 'string' ? forwardedFor.split(',')[0]
\*                                  : req.socket.remoteAddress || '0.0.0.0'
ClientIp(forwardedFor, remoteAddress) ==
    IF forwardedFor.kind = "string" THEN SplitBy(forwardedFor.val, Comma)[1]
    ELSE IF remoteAddress # Undefined /\ remoteAddress # <<>> THEN remoteAddress
    ELSE IpUnknown

\* res.setHeader / res.status(...).json(...): the status, the Allow header
\* and the keys of the body
Response(status, allow, body) == [status |-> status, allow |-> allow, body |-> body]

\* StatusAfterLog answering 500 when the logger failed
StatusAfterLog_FailureIs500(at, outcome) ==
    IF outcome = "throws" THEN 500
    ELSE IF at = "log429" THEN 429 ELSE IF at = "log200" THEN 200 ELSE 500

\* The status sent after the try/catch around logger.log, whatever the
\* logger did
StatusAfterLog(at, outcome) ==
    IF at = "log429" THEN 429 ELSE IF at = "log200" THEN 200 ELSE 500

BodyOf(status) ==
    IF status = 200 THEN {"domain", "results", "validation"}
    ELSE IF status = 500 THEN {"error", "message"}
    ELSE {"error"}

\* A request as the handler receives it
NewRequest(method, d, forwardedFor, remoteAddress) ==
    [method |-> method, domain |-> d, forwardedFor |-> forwardedFor,
     remoteAddress |-> remoteAddress, at |-> "received", clientIp |-> <<>>, call |-> 0,
     queries |-> 0, threw |-> FALSE, logged |-> "none", sent |-> <<>>]

\* The module-level services, the throttler with the limits of the model
InitHandler ==
    /\ AnalyzerIdle
    /\ ResolverIdle
    /\ LoggerIdle
    /\ CheckerIdle
    /\ ipCounts = [ip \in HandlerIps |-> NoTracking]
    /\ now = 1
    /\ calls = <<>>
    /\ reqs = <<>>

\* The handler from its first line to its first await or to its response:
\* the method test, the domain test, the client IP and the call of
\* throttler.checkAllowed, which runs to its end within that call
Receive(method, d, forwardedFor, remoteAddress) ==
    /\ Len(reqs) < MaxRequests
    /\ LET r == NewRequest(method, d, forwardedFor, remoteAddress)
           clientIp == ClientIp(forwardedFor, remoteAddress)
       IN  IF method # "GET"
           THEN /\ reqs' = Append(reqs, [r EXCEPT !.at = "done",
                                            !.sent = <<Response(405, <<"GET">>, BodyOf(405))>>])
                /\ UNCHANGED <<ipCounts, calls>>
           ELSE IF DomainRejected(d)
           THEN /\ reqs' = Append(reqs, [r EXCEPT !.at = "done",
                                            !.sent = <<Response(400, <<>>, BodyOf(400))>>])
                /\ UNCHANGED <<ipCounts, calls>>
           ELSE /\ reqs' = Append(reqs, [r EXCEPT !.at = "throttle", !.clientIp = clientIp,
                                                  !.call = Len(calls) + 1])
                /\ CheckAllowedRuns(clientIp)
    /\ UNCHANGED <<now, nonHandlerVars>>

\* const allowed = await throttler.checkAllowed(clientIp) resumes, in the
\* order of the calls: a refused request calls logger.log, an allowed one
\* starts the first queryAllProviders
ThrottleResumes(r) ==
    /\ r \in 1..Len(reqs)
    /\ reqs[r].at = "throttle"
    /\ \A j \in 1..(reqs[r].call - 1) : calls[j].resumed
    /\ calls' = [calls EXCEPT ![reqs[r].call].resumed = TRUE]
    /\ reqs' = [reqs EXCEPT ![r] =
                   IF calls[reqs[r].call].allowed
                   THEN [@ EXCEPT !.at = "query", !.queries = 1]
                   ELSE [@ EXCEPT !.at = "log429"]]
    /\ UNCHANGED <<ipCounts, now, nonHandlerVars>>

\* One of the four awaited queryAllProviders calls settles: the next one
\* starts, or validateResults after the fourth; the catch block calls
\* logger.log
QueryReturns(r) ==
    /\ r \in 1..Len(reqs)
    /\ reqs[r].at = "query"
    /\ \E outcome \in Outcomes :
          reqs' = [reqs EXCEPT ![r] =
                     IF outcome = "throws" THEN [@ EXCEPT !.at = "log500", !.threw = TRUE]
                     ELSE IF @.queries < 4 THEN [@ EXCEPT !.queries = @ + 1]
                     ELSE [@ EXCEPT !.at = "validate"]]
    /\ UNCHANGED <<throttlerVars, nonHandlerVars>>

\* await resultAnalyzer.validateResults(domain, results) settles; the
\* handler calls logger.log with the summary, or from the catch block
ValidateReturns(r) ==
    /\ r \in 1..Len(reqs)
    /\ reqs[r].at = "validate"
    /\ \E outcome \in Outcomes :
          reqs' = [reqs EXCEPT ![r] =
                     IF outcome = "throws" THEN [@ EXCEPT !.at = "log500", !.threw = TRUE]
                     ELSE [@ EXCEPT !.at = "log200"]]
    /\ UNCHANGED <<throttlerVars, nonHandlerVars>>

\* await logger.log(...) settles inside its try/catch; the response follows
LogSettles(r) ==
    /\ r \in 1..Len(reqs)
    /\ reqs[r].at \in {"log429", "log200", "log500"}
    /\ \E outcome \in Outcomes :
          LET status == StatusAfterLog(reqs[r].at, outcome)
          IN  reqs' = [reqs EXCEPT ![r] =
                         [@ EXCEPT !.at = "done", !.logged = outcome,
                                   !.sent = Append(@, Response(status, <<>>, BodyOf(status)))]]
    /\ UNCHANGED <<throttlerVars, nonHandlerVars>>

NextHandler ==
    \/ \E i \in RequestInputs : Receive(i.method, i.domain, i.forwardedFor, i.remoteAddress)
    \/ \E r \in 1..MaxRequests : ThrottleResumes(r)
    \/ \E r \in 1..MaxRequests : QueryReturns(r)
    \/ \E r \in 1..MaxRequests : ValidateReturns(r)
    \/ \E r \in 1..MaxRequests : LogSettles(r)

SpecHandler == InitHandler /\ [][NextHandler]_vars

\* The throttler refused the request
Denied(req) == req.call # 0 /\ ~calls[req.call].allowed

\* The status a request is to get, the checks taken in the order method,
\* domain, throttler, outcome; `rejected` says which domain parameters are
\* refused
StatusDue(req, rejected) ==
    IF req.method # "GET" THEN 405
    ELSE IF rejected THEN 400
    ELSE IF Denied(req) THEN 429
    ELSE IF req.threw THEN 500
    ELSE 200

\* Every request has at most one response, has it when the handler is done
\* with it, and the response is the one due
AnsweredAsDue(Refused(_)) ==
    \A r \in 1..Len(reqs) :
        /\ Len(reqs[r].sent) = (IF reqs[r].at = "done" THEN 1 ELSE 0)
        /\ reqs[r].at = "done" =>
              LET status == StatusDue(reqs[r], Refused(reqs[r].domain))
              IN  /\ reqs[r].sent[1].status = status
                  /\ (reqs[r].sent[1].allow = <<"GET">>) = (status = 405)
                  /\ status = 200 => reqs[r].sent[1].body = {"domain", "results", "validation"}
                  /\ status = 500 => reqs[r].sent[1].body = {"error", "message"}

\* The domain parameter is missing or is not a single string
MissingOrNotString(d) == d.kind \in {"absent", "array"}

\* The domain parameter is missing, empty or not a single string
MissingEmptyOrNotString(d) == d.kind \in {"absent", "array"} \/ d.val = <<>>

\* C21 as stated: every request gets exactly one status, 405 with Allow: GET
\* for a method other than GET, else 400 when the domain parameter is
\* missing or not a single string, else 429 when the throttler refuses the
\* IP, else 500 with {error, message} when resolution or validation threw,
\* else 200 with {domain, results, validation}, whatever the logger did.
C21_Original == AnsweredAsDue(MissingOrNotString)

\* C21: every request gets exactly one status, 405 with Allow: GET for a
\* method other than GET, else 400 when the domain parameter is missing,
\* empty or not a single string, else 429 when the throttler refuses the IP,
\* else 500 with {error, message} when resolution or validation threw, else
\* 200 with {domain, results, validation}, whatever the logger did.
C21_OneStatusInOrder == AnsweredAsDue(MissingEmptyOrNotString)

\* A request answered 200 though its logger.log call failed, next to a
\* request the throttler refused, answered 429 though its logger.log failed
C21_Witness ==
    \E r, q \in 1..Len(reqs) :
        /\ reqs[r].at = "done" /\ reqs[r].logged = "throws" /\ reqs[r].sent[1].status = 200
        /\ reqs[q].at = "done" /\ reqs[q].logged = "throws" /\ reqs[q].sent[1].status = 429

\* The requests whose checkAllowed call returned true for the IP
AdmittedFor(ip) ==
    {r \in 1..Len(reqs) :
        reqs[r].call # 0 /\ calls[reqs[r].call].ip = ip /\ calls[reqs[r].call].allowed}

\* C28: a request answered 405 or 400 has made no checkAllowed call and a
\* request answered 429 no DNS query; a request that has reached the DNS
\* queries has made exactly one checkAllowed call, which returned true and
\* counted one unit for the first entry of x-forwarded-for when that header
\* is a string and for the socket address otherwise.
C28_QuotaPerRequest ==
    /\ \A r \in 1..Len(reqs) :
          /\ (reqs[r].sent # <<>> /\ reqs[r].sent[1].status \in {405, 400}) => reqs[r].call = 0
          /\ (reqs[r].sent # <<>> /\ reqs[r].sent[1].status = 429) => reqs[r].queries = 0
          /\ reqs[r].queries > 0 =>
                /\ reqs[r].call \in 1..Len(calls)
                /\ calls[reqs[r].call].allowed
                /\ reqs[r].forwardedFor.kind = "string" =>
                      calls[reqs[r].call].ip = SplitFirst(reqs[r].forwardedFor.val, Comma)
                /\ (reqs[r].forwardedFor.kind # "string" /\ reqs[r].remoteAddress # Undefined) =>
                      calls[reqs[r].call].ip = reqs[r].remoteAddress
    /\ \A r, q \in 1..Len(reqs) : (r # q /\ reqs[r].call # 0) => reqs[r].call # reqs[q].call
    /\ Len(calls) = Cardinality({r \in 1..Len(reqs) : reqs[r].call # 0})
    /\ \A ip \in HandlerIps : ipCounts[ip].count = Cardinality(AdmittedFor(ip))

\* A request with a forwarded-for list has reached the DNS queries on the
\* quota of the first address of the list, and a later request from that
\* address was refused before any query
C28_Witness ==
    \E r, q \in 1..Len(reqs) :
        /\ reqs[r].forwardedFor.kind = "string"
        /\ reqs[r].queries > 0
        /\ calls[reqs[r].call].ip = IpExact
        /\ ipCounts[IpExact].count = 1
        /\ reqs[q].sent # <<>> /\ reqs[q].sent[1].status = 429 /\ reqs[q].queries = 0

=============================================================================
